---- MODULE Spec2Model ----
(***************************************************************************)
(* ROI calculator for DSE software: the pricing resolver (lib/pricing.ts), *)
(* the calculation engine, the scenario aggregator and the sensitivity     *)
(* analysis (lib/roi.ts), and the validators (lib/schema.ts,               *)
(* lib/formulas.ts).                                                       *)
(*                                                                         *)
(* Numbers.  A JavaScript number is modelled as an exact fraction <<n, d>> *)
(* in lowest terms with d > 0; the three non-finite numbers are <<1, 0>>   *)
(* (Infinity), <<-1, 0>> (-Infinity) and <<0, 0>> (NaN).  Arithmetic is    *)
(* exact: the rounding error of IEEE-754 doubles is not modelled.          *)
(***************************************************************************)
EXTENDS Integers, Sequences, FiniteSets, TLC

VARIABLES
    inputs,      \* the parameter set handed to the engine (or Null)
    result,      \* what the last calculateROI call returned, with its scenario
    scenarios,   \* what the last calculateAllScenarios call returned
    cost,        \* what the last calculateSoftwareCost call returned
    sensitivity, \* what the last performSensitivityAnalysis call returned
    validation,  \* what the last validateInputs, validateField or
                 \* validateBusinessLogic call returned
    testResult,  \* what the last test of the test runner returned
    activeScenario,   \* App state: the scenario tab shown
    validationErrors, \* App state: the errors of the last validation
    sensitivityData,  \* App state: the sensitivity curves shown
    fieldErrors,      \* InputForm state: the message shown under each field
    effectPending     \* inputs was set since App's effect on [inputs] last ran

vars ==
    <<inputs, result, scenarios, cost, sensitivity, validation, testResult,
      activeScenario, validationErrors, sensitivityData, fieldErrors, effectPending>>

\* the state of the App and of its form
appVars == <<activeScenario, validationErrors, sensitivityData, fieldErrors, effectPending>>

\* the App's useState initial values; pending says whether inputs has been set
\* and the effect has not yet run for it
AppState(pending) ==
    /\ activeScenario = "expected"
    /\ validationErrors = <<>>
    /\ sensitivityData = <<>>
    /\ fieldErrors = [f \in {} |-> <<>>]
    /\ effectPending = pending

-----------------------------------------------------------------------------
(* JavaScript number arithmetic on exact fractions *)

Abs(x) == IF x < 0 THEN -x ELSE x

Sign(x) == IF x < 0 THEN -1 ELSE IF x > 0 THEN 1 ELSE 0

RECURSIVE GCD(_, _)
GCD(a, b) == IF b = 0 THEN a ELSE GCD(b, a % b)

Norm(n, d) ==
    IF d = 0 THEN <<Sign(n), 0>>
    ELSE LET g == GCD(Abs(n), Abs(d))
             s == Sign(d)
         IN  <<s * (n \div g), s * (d \div g)>>

R(i) == <<i, 1>>

Frac(n, d) == Norm(n, d)

NaN == <<0, 0>>

Infinity == <<1, 0>>

IsNaN(a) == a = NaN

IsFinite(a) == a[2] # 0

\* a * b
RMul(a, b) ==
    IF a[2] = 0 \/ b[2] = 0 THEN <<Sign(a[1]) * Sign(b[1]), 0>>
    ELSE LET g1 == GCD(Abs(a[1]), b[2])
             g2 == GCD(Abs(b[1]), a[2])
         IN  <<(a[1] \div g1) * (b[1] \div g2), (a[2] \div g2) * (b[2] \div g1)>>

\* 1 / a
RInv(a) ==
    IF a[2] = 0 THEN (IF a[1] = 0 THEN NaN ELSE <<0, 1>>)
    ELSE IF a[1] = 0 THEN Infinity
    ELSE IF a[1] < 0 THEN <<-a[2], -a[1]>>
    ELSE <<a[2], a[1]>>

\* a / b
RDiv(a, b) == RMul(a, RInv(b))

\* a + b
RAdd(a, b) ==
    IF a[2] = 0 /\ b[2] = 0 THEN (IF a = b THEN a ELSE NaN)
    ELSE IF a[2] = 0 THEN a
    ELSE IF b[2] = 0 THEN b
    ELSE LET g == GCD(a[2], b[2])
         IN  Norm(a[1] * (b[2] \div g) + b[1] * (a[2] \div g), a[2] * (b[2] \div g))

RNeg(a) == <<-a[1], a[2]>>

\* a - b
RSub(a, b) == RAdd(a, RNeg(b))

\* a < b (false when either is NaN)
RLt(a, b) ==
    IF IsNaN(a) \/ IsNaN(b) THEN FALSE
    ELSE IF a[2] = 0 \/ b[2] = 0
         THEN (IF a[2] = 0 THEN a[1] ELSE 0) < (IF b[2] = 0 THEN b[1] ELSE 0)
    ELSE LET fa == a[1] \div a[2]
             fb == b[1] \div b[2]
         IN  IF fa # fb THEN fa < fb
             ELSE (a[1] % a[2]) * b[2] < (b[1] % b[2]) * a[2]

\* a === b
StrictEq(a, b) == ~IsNaN(a) /\ ~IsNaN(b) /\ a = b

\* a <= b
RLe(a, b) == StrictEq(a, b) \/ RLt(a, b)

\* a > b
RGt(a, b) == RLt(b, a)

\* a >= b
RGe(a, b) == RLe(b, a)

MathMin(a, b) == IF IsNaN(a) \/ IsNaN(b) THEN NaN ELSE IF RLt(b, a) THEN b ELSE a

MathMax(a, b) == IF IsNaN(a) \/ IsNaN(b) THEN NaN ELSE IF RLt(a, b) THEN b ELSE a

MathAbs(a) == <<Abs(a[1]), a[2]>>

MathCeil(a) == IF a[2] = 0 THEN a ELSE <<-((-a[1]) \div a[2]), 1>>

\* Math.round: to the nearest integer, a half rounds up
MathRound(a) == IF a[2] = 0 THEN a ELSE <<(2 * a[1] + a[2]) \div (2 * a[2]), 1>>

-----------------------------------------------------------------------------
(* lib/pricing.ts *)

SOFTWARE_PRICING_TIERS == <<
    [headcount |-> R(50),    annualPrice |-> R(750),   perUser |-> R(15),
     description |-> "Small business (50+ employees)"],
    [headcount |-> R(100),   annualPrice |-> R(1200),  perUser |-> R(12),
     description |-> "Small-medium business (100+ employees)"],
    [headcount |-> R(250),   annualPrice |-> R(2500),  perUser |-> R(10),
     description |-> "Medium business (250+ employees)"],
    [headcount |-> R(500),   annualPrice |-> R(4500),  perUser |-> R(9),
     description |-> "Medium-large business (500+ employees)"],
    [headcount |-> R(1000),  annualPrice |-> R(8000),  perUser |-> R(8),
     description |-> "Large business (1000+ employees)"],
    [headcount |-> R(2500),  annualPrice |-> R(17500), perUser |-> R(7),
     description |-> "Enterprise (2500+ employees)"],
    [headcount |-> R(5000),  annualPrice |-> R(30000), perUser |-> R(6),
     description |-> "Large enterprise (5000+ employees)"],
    [headcount |-> R(10000), annualPrice |-> R(55000), perUser |-> Frac(11, 2),
     description |-> "Mega enterprise (10000+ employees)"] >>

\* mutant: the loop compares with > instead of >=
RECURSIVE selectTier_strict(_, _)
selectTier_strict(headcount, i) ==
    IF i < 1 THEN 1
    ELSE IF RGt(headcount, SOFTWARE_PRICING_TIERS[i].headcount) THEN i
    ELSE selectTier_strict(headcount, i - 1)

\* the loop of calculateSoftwareCost: i runs from the last tier down to the
\* first (1-based here); falling off the front leaves selectedTier = tier 1
RECURSIVE selectTier(_, _)
selectTier(headcount, i) ==
    IF i < 1 THEN 1
    ELSE IF RGe(headcount, SOFTWARE_PRICING_TIERS[i].headcount) THEN i
    ELSE selectTier(headcount, i - 1)

\* mutant: two separate ifs, so both discounts apply from 10000 up
applyVolumeDiscount_cumulative(selectedTier, headcount) ==
    LET first == IF RGe(headcount, R(10000))
                 THEN RMul(selectedTier.annualPrice, Frac(9, 10))
                 ELSE selectedTier.annualPrice
        finalPrice == IF RGe(headcount, R(5000))
                      THEN RMul(first, Frac(95, 100))
                      ELSE first
    IN  IF RGe(headcount, R(5000))
        THEN <<finalPrice, RDiv(finalPrice, headcount)>>
        ELSE <<selectedTier.annualPrice, selectedTier.perUser>>

\* mutant: the discount branches leave finalPerUser at the tier's list price
applyVolumeDiscount_nominalPerUser(selectedTier, headcount) ==
    IF RGe(headcount, R(10000))
    THEN <<RMul(selectedTier.annualPrice, Frac(9, 10)), selectedTier.perUser>>
    ELSE IF RGe(headcount, R(5000))
    THEN <<RMul(selectedTier.annualPrice, Frac(95, 100)), selectedTier.perUser>>
    ELSE <<selectedTier.annualPrice, selectedTier.perUser>>

\* mutant: the price is multiplied by the discount rate, not by 1 - rate
applyVolumeDiscount_rateOnly(selectedTier, headcount) ==
    IF RGe(headcount, R(10000))
    THEN LET finalPrice == RMul(selectedTier.annualPrice, Frac(1, 10))
         IN  <<finalPrice, RDiv(finalPrice, headcount)>>
    ELSE IF RGe(headcount, R(5000))
    THEN LET finalPrice == RMul(selectedTier.annualPrice, Frac(5, 100))
         IN  <<finalPrice, RDiv(finalPrice, headcount)>>
    ELSE <<selectedTier.annualPrice, selectedTier.perUser>>

\* the volume discount branch: the discounted <<finalPrice, finalPerUser>>
applyVolumeDiscount(selectedTier, headcount) ==
    IF RGe(headcount, R(10000))
    THEN LET finalPrice == RMul(selectedTier.annualPrice, Frac(9, 10))
         IN  <<finalPrice, RDiv(finalPrice, headcount)>>
    ELSE IF RGe(headcount, R(5000))
    THEN LET finalPrice == RMul(selectedTier.annualPrice, Frac(95, 100))
         IN  <<finalPrice, RDiv(finalPrice, headcount)>>
    ELSE <<selectedTier.annualPrice, selectedTier.perUser>>

calculateSoftwareCost(headcount) ==
    LET selectedTier ==
            SOFTWARE_PRICING_TIERS[selectTier(headcount, Len(SOFTWARE_PRICING_TIERS))]
        final == applyVolumeDiscount(selectedTier, headcount)
    IN  [annualPrice |-> MathRound(final[1]),
         perUser     |-> RDiv(MathRound(RMul(final[2], R(100))), R(100)),
         tier        |-> selectedTier.description]

-----------------------------------------------------------------------------
(* lib/roi.ts: the calculation engine *)

\* a parameter set that is not an object (null): reading a field of it throws
Null == [null |-> TRUE]

IsNull(p) == "null" \in DOMAIN p

DEFAULT_INPUTS ==
    [headcount |-> R(800), dseUserPercentage |-> R(50), adminSalary |-> R(80000),
     adminTimeNow |-> R(5), adminTimeWithSoftware |-> Frac(3, 2),
     softwarePricePerUser |-> R(10), baselineAbsenceRate |-> R(5),
     costPerAbsenceDay |-> R(300), msdPrevalence |-> R(25),
     reductionInMsdAbsence |-> R(15), reductionInClinicalInterventions |-> R(25),
     costPerClinicalIntervention |-> R(600), workDaysPerYear |-> R(220),
     absenceDueToMsdPercentage |-> R(30), msdNeedingInterventionPercentage |-> R(20),
     adminOnCostPercentage |-> R(30), currency |-> "EUR"]

Scenarios == {"conservative", "expected", "stretch"}

\* mutant: a step records the value as displayed, rounded to a whole number
Step_rounded(step, value, unit) == [step |-> step, value |-> MathRound(value), unit |-> unit]

\* an audit record; its formula text is a display string and is not modelled
Step(step, value, unit) == [step |-> step, value |-> value, unit |-> unit]

\* the result returned for headcount === 0
zeroHeadcountResult ==
    [isValid |-> TRUE, validationErrors |-> <<>>,
     adminCostNow |-> R(0), adminCostWithSoftware |-> R(0), adminSaving |-> R(0),
     licenceCost |-> R(0), softwareCostPerUser |-> R(0),
     msdAbsenceBaselineDays |-> R(0), absenceSaving |-> R(0),
     interventionSaving |-> R(0), totalAnnualSavings |-> R(0), netBenefit |-> R(0),
     roiPercentage |-> R(0), paybackMonths |-> R(0), breakevenUsers |-> R(0),
     calculationSteps |-> << Step("Edge Case: Zero Headcount", R(0), "N/A") >>]

\* the result returned by the catch block
faultResult(message) ==
    [isValid |-> FALSE, validationErrors |-> << message >>,
     adminCostNow |-> R(0), adminCostWithSoftware |-> R(0), adminSaving |-> R(0),
     licenceCost |-> R(0), softwareCostPerUser |-> R(0),
     msdAbsenceBaselineDays |-> R(0), absenceSaving |-> R(0),
     interventionSaving |-> R(0), totalAnnualSavings |-> R(0), netBenefit |-> R(0),
     roiPercentage |-> R(0), paybackMonths |-> R(0), breakevenUsers |-> R(0),
     calculationSteps |-> <<>>]

\* the three locals the scenario switch adjusts
Adjusted(adminTimeWithSoftware, reductionInMsdAbsence, reductionInClinicalInterventions) ==
    [adminTimeWithSoftware |-> adminTimeWithSoftware,
     reductionInMsdAbsence |-> reductionInMsdAbsence,
     reductionInClinicalInterventions |-> reductionInClinicalInterventions]

\* mutant: the default branch also applies the stretch multipliers
applyScenario_defaultStretch(p, scenario) ==
    IF scenario = "conservative"
    THEN Adjusted(RAdd(p.adminTimeWithSoftware, Frac(1, 2)),
                  RMul(p.reductionInMsdAbsence, Frac(1, 2)),
                  RMul(p.reductionInClinicalInterventions, Frac(1, 2)))
    ELSE Adjusted(p.adminTimeWithSoftware,
                  RMul(p.reductionInMsdAbsence, Frac(3, 2)),
                  RMul(p.reductionInClinicalInterventions, Frac(3, 2)))

\* mutant: the conservative case has no break and falls through into stretch
applyScenario_fallThrough(p, scenario) ==
    CASE scenario = "conservative" ->
            Adjusted(RAdd(p.adminTimeWithSoftware, Frac(1, 2)),
                     RMul(RMul(p.reductionInMsdAbsence, Frac(1, 2)), Frac(3, 2)),
                     RMul(RMul(p.reductionInClinicalInterventions, Frac(1, 2)), Frac(3, 2)))
      [] scenario = "stretch" ->
            Adjusted(p.adminTimeWithSoftware,
                     RMul(p.reductionInMsdAbsence, Frac(3, 2)),
                     RMul(p.reductionInClinicalInterventions, Frac(3, 2)))
      [] OTHER ->
            Adjusted(p.adminTimeWithSoftware, p.reductionInMsdAbsence,
                     p.reductionInClinicalInterventions)

\* mutant: the conservative case takes half a day off instead of adding it
applyScenario_minusHalfDay(p, scenario) ==
    CASE scenario = "conservative" ->
            Adjusted(RSub(p.adminTimeWithSoftware, Frac(1, 2)),
                     RMul(p.reductionInMsdAbsence, Frac(1, 2)),
                     RMul(p.reductionInClinicalInterventions, Frac(1, 2)))
      [] scenario = "stretch" ->
            Adjusted(p.adminTimeWithSoftware,
                     RMul(p.reductionInMsdAbsence, Frac(3, 2)),
                     RMul(p.reductionInClinicalInterventions, Frac(3, 2)))
      [] OTHER ->
            Adjusted(p.adminTimeWithSoftware, p.reductionInMsdAbsence,
                     p.reductionInClinicalInterventions)

\* "Apply scenario multipliers": the switch on scenario
applyScenario(p, scenario) ==
    CASE scenario = "conservative" ->
            Adjusted(RAdd(p.adminTimeWithSoftware, Frac(1, 2)),
                     RMul(p.reductionInMsdAbsence, Frac(1, 2)),
                     RMul(p.reductionInClinicalInterventions, Frac(1, 2)))
      [] scenario = "stretch" ->
            Adjusted(p.adminTimeWithSoftware,
                     RMul(p.reductionInMsdAbsence, Frac(3, 2)),
                     RMul(p.reductionInClinicalInterventions, Frac(3, 2)))
      [] OTHER ->
            Adjusted(p.adminTimeWithSoftware, p.reductionInMsdAbsence,
                     p.reductionInClinicalInterventions)

\* dseUserCount = headcount * (dseUserPercentage / 100)
dseUserCountOf(p) == RMul(p.headcount, RDiv(p.dseUserPercentage, R(100)))

\* Steps 1 and 2: (adminSalary * onCostMultiplier) * (days / 5)
adminCostOf(p, days) ==
    LET onCostMultiplier == RAdd(R(1), RDiv(p.adminOnCostPercentage, R(100)))
    IN  RMul(RMul(p.adminSalary, onCostMultiplier), RDiv(days, R(5)))

\* mutant: the licence cost per DSE user, N x pDSE x lic
licenceCostOf_perDseUser(p) ==
    RMul(RMul(p.headcount, RDiv(p.dseUserPercentage, R(100))), p.softwarePricePerUser)

\* Step 4: the licence cost of the engine
licenceCostOf(p) == calculateSoftwareCost(p.headcount).annualPrice

\* mutant: the share of absence that is due to MSD is left out
msdAbsenceBaselineDaysOf_allAbsence(p, dseUserCount) ==
    RMul(RMul(dseUserCount, RDiv(p.baselineAbsenceRate, R(100))), p.workDaysPerYear)

\* Step 5: MSD-related absence baseline days
msdAbsenceBaselineDaysOf(p, dseUserCount) ==
    RMul(RMul(RMul(dseUserCount, RDiv(p.baselineAbsenceRate, R(100))),
              p.workDaysPerYear),
         RDiv(p.absenceDueToMsdPercentage, R(100)))

\* Step 7: intervention saving
interventionSavingOf(p, dseUserCount, adjustedReductionInClinicalInterventions) ==
    RMul(RMul(RMul(RMul(dseUserCount, RDiv(p.msdPrevalence, R(100))),
                   RDiv(adjustedReductionInClinicalInterventions, R(100))),
              p.costPerClinicalIntervention),
         RDiv(p.msdNeedingInterventionPercentage, R(100)))

\* Step 8: total annual savings
totalAnnualSavingsOf(adminSaving, absenceSaving, interventionSaving) ==
    RAdd(RAdd(adminSaving, absenceSaving), interventionSaving)

\* mutant: the ratio is not turned into a percentage
roiPercentageOf_ratio(netBenefit, licenceCost) ==
    IF RGt(licenceCost, R(0)) THEN RDiv(netBenefit, licenceCost) ELSE R(0)

\* Step 10: ROI percentage
roiPercentageOf(netBenefit, licenceCost) ==
    IF RGt(licenceCost, R(0))
    THEN RMul(RDiv(netBenefit, licenceCost), R(100))
    ELSE R(0)

\* mutant: the period is capped at 12 months
paybackMonthsOf_capTwelve(licenceCost, totalAnnualSavings) ==
    MathMin(R(12), RDiv(RMul(R(12), licenceCost), MathMax(totalAnnualSavings, R(1))))

\* mutant: the denominator is not floored at 1
paybackMonthsOf_noFloor(licenceCost, totalAnnualSavings) ==
    MathMin(R(36), RDiv(RMul(R(12), licenceCost), totalAnnualSavings))

\* Step 11: payback period in months
paybackMonthsOf(licenceCost, totalAnnualSavings) ==
    MathMin(R(36), RDiv(RMul(R(12), licenceCost), MathMax(totalAnnualSavings, R(1))))

\* mutant: the quotient is not rounded up
breakevenUsersOf_noCeil(licenceCost, totalAnnualSavings, dseUserCount) ==
    IF RGt(totalAnnualSavings, R(0))
    THEN RDiv(licenceCost, RDiv(totalAnnualSavings, dseUserCount))
    ELSE R(0)

\* Step 12: breakeven users
breakevenUsersOf(licenceCost, totalAnnualSavings, dseUserCount) ==
    IF RGt(totalAnnualSavings, R(0))
    THEN MathCeil(RDiv(licenceCost, RDiv(totalAnnualSavings, dseUserCount)))
    ELSE R(0)

\* "Derived calculations with full precision", steps 1 to 12, on the
\* parameter set p and the adjusted locals adj
derivedCalculations(p, adj) ==
    LET dseUserCount == dseUserCountOf(p)
        adminCostNow == adminCostOf(p, p.adminTimeNow)
        adminCostWithSoftware == adminCostOf(p, adj.adminTimeWithSoftware)
        adminSaving == RSub(adminCostNow, adminCostWithSoftware)
        softwareCost == calculateSoftwareCost(p.headcount)
        licenceCost == licenceCostOf(p)
        msdAbsenceBaselineDays == msdAbsenceBaselineDaysOf(p, dseUserCount)
        absenceSaving ==
            RMul(RMul(msdAbsenceBaselineDays, p.costPerAbsenceDay),
                 RDiv(adj.reductionInMsdAbsence, R(100)))
        interventionSaving ==
            interventionSavingOf(p, dseUserCount, adj.reductionInClinicalInterventions)
        totalAnnualSavings ==
            totalAnnualSavingsOf(adminSaving, absenceSaving, interventionSaving)
        netBenefit == RSub(totalAnnualSavings, licenceCost)
        roiPercentage == roiPercentageOf(netBenefit, licenceCost)
        paybackMonths == paybackMonthsOf(licenceCost, totalAnnualSavings)
        breakevenUsers == breakevenUsersOf(licenceCost, totalAnnualSavings, dseUserCount)
    IN  [isValid |-> TRUE, validationErrors |-> <<>>,
         adminCostNow |-> adminCostNow,
         adminCostWithSoftware |-> adminCostWithSoftware,
         adminSaving |-> adminSaving,
         licenceCost |-> licenceCost,
         softwareCostPerUser |-> softwareCost.perUser,
         msdAbsenceBaselineDays |-> msdAbsenceBaselineDays,
         absenceSaving |-> absenceSaving,
         interventionSaving |-> interventionSaving,
         totalAnnualSavings |-> totalAnnualSavings,
         netBenefit |-> netBenefit,
         roiPercentage |-> roiPercentage,
         paybackMonths |-> paybackMonths,
         breakevenUsers |-> breakevenUsers,
         calculationSteps |-> <<
             Step("Admin Cost (Current)", adminCostNow, "€/year"),
             Step("Admin Cost (With Software)", adminCostWithSoftware, "€/year"),
             Step("Admin Time Savings", adminSaving, "€/year"),
             Step("Software Licence Cost", licenceCost, "€/year"),
             Step("MSD Absence Baseline Days", msdAbsenceBaselineDays, "days/year"),
             Step("Absence Reduction Savings", absenceSaving, "€/year"),
             Step("Clinical Intervention Savings", interventionSaving, "€/year"),
             Step("Total Annual Savings", totalAnnualSavings, "€/year"),
             Step("Net Annual Benefit", netBenefit, "€/year"),
             Step("ROI Percentage", roiPercentage, "%"),
             Step("Payback Period", paybackMonths, "months"),
             Step("Breakeven Users", breakevenUsers, "users") >>]

\* mutant: the edge case tests for a negative headcount
isZeroHeadcount_negative(p) == RLt(p.headcount, R(0))

\* whether calculateROI takes the zero-headcount return
isZeroHeadcount(p) == StrictEq(p.headcount, R(0))

\* mutant: the fields are read before the try block, so reading a field of
\* null throws out of calculateROI
calculateROI_outsideTry(p, scenario) ==
    IF IsNull(p)
    THEN [thrown |-> "TypeError: Cannot read properties of null (reading 'headcount')"]
    ELSE IF isZeroHeadcount(p) THEN zeroHeadcountResult
    ELSE derivedCalculations(p, applyScenario(p, scenario))

\* calculateROI: try { edge case; scenario; derived } catch { fault }.
\* Reading inputs.headcount of a null parameter set throws a TypeError inside
\* the try block, whose message the catch block reports.
calculateROI(p, scenario) ==
    IF IsNull(p)
    THEN faultResult("Calculation error: Cannot read properties of null (reading 'headcount')")
    ELSE IF isZeroHeadcount(p) THEN zeroHeadcountResult
    ELSE derivedCalculations(p, applyScenario(p, scenario))

\* mutant: the scenario switch assigns to the fields of inputs themselves
callerAfterCalculateROI_inPlace(p, scenario) ==
    IF IsNull(p) \/ isZeroHeadcount(p) THEN p
    ELSE LET adj == applyScenario(p, scenario)
         IN  [p EXCEPT !.adminTimeWithSoftware = adj.adminTimeWithSoftware,
                       !.reductionInMsdAbsence = adj.reductionInMsdAbsence,
                       !.reductionInClinicalInterventions =
                           adj.reductionInClinicalInterventions]

\* the caller's object once calculateROI(p, scenario) has returned: the
\* scenario switch assigns to the locals adjustedAdminTimeWithSoftware,
\* adjustedAbsenceReduction and adjustedInterventionReduction, never to inputs
callerAfterCalculateROI(p, scenario) == p

\* the three calls are made in this order on the one object the caller passed
calculateAllScenarios(p) ==
    LET p1 == callerAfterCalculateROI(p, "conservative")
        p2 == callerAfterCalculateROI(p1, "expected")
    IN  [conservative |-> calculateROI(p, "conservative"),
         expected     |-> calculateROI(p1, "expected"),
         stretch      |-> calculateROI(p2, "stretch")]

\* the caller's object once calculateAllScenarios(p) has returned
callerAfterCalculateAllScenarios(p) ==
    callerAfterCalculateROI(
        callerAfterCalculateROI(callerAfterCalculateROI(p, "conservative"), "expected"),
        "stretch")

\* the default of the parameters argument of performSensitivityAnalysis
defaultParameters ==
    << "adminSalary", "adminTimeNow", "reductionInMsdAbsence",
       "reductionInClinicalInterventions" >>

variations == << R(-30), R(-20), R(-10), R(0), R(10), R(20), R(30) >>

getParameterUnit(param) ==
    CASE param = "headcount" -> "employees"
      [] param = "adminSalary" -> "€/year"
      [] param \in {"adminTimeNow", "adminTimeWithSoftware"} -> "days/week"
      [] param = "softwarePricePerUser" -> "€/user/year"
      [] param = "costPerAbsenceDay" -> "€/day"
      [] param = "costPerClinicalIntervention" -> "€"
      [] param = "workDaysPerYear" -> "days"
      [] param = "currency" -> ""
      [] OTHER -> "%"

getParameterDisplayName(param) ==
    CASE param = "headcount" -> "Company Size"
      [] param = "dseUserPercentage" -> "DSE User %"
      [] param = "adminSalary" -> "Admin Salary"
      [] param = "adminTimeNow" -> "Current Admin Time"
      [] param = "adminTimeWithSoftware" -> "Software Admin Time"
      [] param = "softwarePricePerUser" -> "Software Price"
      [] param = "baselineAbsenceRate" -> "Baseline Absence Rate"
      [] param = "costPerAbsenceDay" -> "Cost per Absence Day"
      [] param = "msdPrevalence" -> "MSD Prevalence"
      [] param = "reductionInMsdAbsence" -> "MSD Absence Reduction"
      [] param = "reductionInClinicalInterventions" -> "Intervention Reduction"
      [] param = "costPerClinicalIntervention" -> "Intervention Cost"
      [] param = "workDaysPerYear" -> "Work Days per Year"
      [] param = "absenceDueToMsdPercentage" -> "MSD Absence %"
      [] param = "msdNeedingInterventionPercentage" -> "MSD Intervention %"
      [] param = "adminOnCostPercentage" -> "Admin On-Cost %"
      [] param = "currency" -> "Currency"
      [] OTHER -> param

\* mutant: the field is replaced by the change instead of shifted by it
modifiedInputs_replace(p, param, baseline, variation) ==
    [p EXCEPT ![param] = RMul(baseline, RDiv(variation, R(100)))]

\* modifiedInputs of one point: a copy of p with param = baseline + change,
\* where change = baseline * (variation / 100)
modifiedInputs(p, param, baseline, variation) ==
    LET change == RMul(baseline, RDiv(variation, R(100)))
    IN  [p EXCEPT ![param] = RAdd(baseline, change)]

\* mutant: modifiedInputs is the caller's object itself, not a spread copy
callerAfterPoint_alias(p, modified) == modified

\* the caller's object once a point is computed: { ...inputs } is a fresh
\* object, so the assignment to modifiedInputs[param] does not reach inputs
callerAfterPoint(p, modified) == p

\* what a point records of the engine's result
sensitivityPoint(variation, r) ==
    [variation |-> variation, roi |-> r.roiPercentage,
     paybackMonths |-> r.paybackMonths, netBenefit |-> r.netBenefit]

\* the caller's object after variations.map(...) has run from the j-th
\* variation on, having started on the caller's object cur
RECURSIVE callerAfterVariations(_, _, _, _)
callerAfterVariations(cur, param, baseline, j) ==
    IF j > Len(variations) THEN cur
    ELSE callerAfterVariations(
             callerAfterPoint(cur, modifiedInputs(cur, param, baseline, variations[j])),
             param, baseline, j + 1)

\* variations.map(...) from the j-th variation on, on the caller's object cur
RECURSIVE variationsData(_, _, _, _)
variationsData(cur, param, baseline, j) ==
    IF j > Len(variations) THEN <<>>
    ELSE << sensitivityPoint(
                variations[j],
                calculateROI(modifiedInputs(cur, param, baseline, variations[j]),
                             "expected")) >>
         \o variationsData(
                callerAfterPoint(cur, modifiedInputs(cur, param, baseline, variations[j])),
                param, baseline, j + 1)

\* the curve of one parameter: baseline is read once, before the variations
sensitivityCurve(cur, param) ==
    [parameter |-> getParameterDisplayName(param),
     baseline |-> cur[param],
     unit |-> getParameterUnit(param),
     variations |-> variationsData(cur, param, cur[param], 1)]

\* the caller's object after parameters.map(...) has run from the i-th
\* parameter on
RECURSIVE callerAfterCurves(_, _, _)
callerAfterCurves(cur, parameters, i) ==
    IF i > Len(parameters) THEN cur
    ELSE callerAfterCurves(
             callerAfterVariations(cur, parameters[i], cur[parameters[i]], 1),
             parameters, i + 1)

\* parameters.map(...) from the i-th parameter on, on the caller's object cur
RECURSIVE sensitivityCurves(_, _, _)
sensitivityCurves(cur, parameters, i) ==
    IF i > Len(parameters) THEN <<>>
    ELSE << sensitivityCurve(cur, parameters[i]) >>
         \o sensitivityCurves(
                callerAfterVariations(cur, parameters[i], cur[parameters[i]], 1),
                parameters, i + 1)

performSensitivityAnalysis(p, parameters) == sensitivityCurves(p, parameters, 1)

\* the caller's object once performSensitivityAnalysis(p, parameters) has returned
callerAfterSensitivityAnalysis(p, parameters) == callerAfterCurves(p, parameters, 1)

-----------------------------------------------------------------------------
(* lib/schema.ts: the zod schema and validateInputs *)

\* a zod number check: kind "int", "min" (>=), "gt" (>) or "max" (<=)
Check(kind, value, message) == [kind |-> kind, value |-> value, message |-> message]

percentage ==
    << Check("min", R(0), "Must be 0% or higher"),
       Check("max", R(100), "Cannot exceed 100%") >>

daysPerWeek ==
    << Check("min", R(0), "Must be 0 or higher"),
       Check("max", R(7), "Cannot exceed 7 days") >>

currency == << Check("gt", R(0), "Must be greater than 0") >>

\* mutant: the minimum of headcount is 0
headcount_minZero ==
    << Check("int", R(0), "Must be whole number"),
       Check("min", R(0), "Must be positive"),
       Check("max", R(100000), "Maximum 100,000 employees") >>

headcount ==
    << Check("int", R(0), "Must be whole number"),
       Check("min", R(1), "Must be positive"),
       Check("max", R(100000), "Maximum 100,000 employees") >>

workDaysPerYear ==
    << Check("int", R(0), "Expected integer, received float"),
       Check("min", R(200), "Minimum 200 work days"),
       Check("max", R(260), "Maximum 260 work days") >>

CurrencyEnum == {"EUR", "GBP", "USD"}

\* the numeric fields of ROICalculationSchema, in declaration order
ROICalculationSchema ==
    << <<"headcount", headcount>>,
       <<"dseUserPercentage", percentage>>,
       <<"adminSalary", currency>>,
       <<"adminTimeNow", daysPerWeek>>,
       <<"adminTimeWithSoftware", daysPerWeek>>,
       <<"softwarePricePerUser", currency>>,
       <<"baselineAbsenceRate", percentage>>,
       <<"costPerAbsenceDay", currency>>,
       <<"msdPrevalence", percentage>>,
       <<"reductionInMsdAbsence", percentage>>,
       <<"reductionInClinicalInterventions", percentage>>,
       <<"costPerClinicalIntervention", currency>>,
       <<"workDaysPerYear", workDaysPerYear>>,
       <<"absenceDueToMsdPercentage", percentage>>,
       <<"msdNeedingInterventionPercentage", percentage>>,
       <<"adminOnCostPercentage", percentage>> >>

\* whether the number x fails the check c
failsCheck(x, c) ==
    CASE c.kind = "int" -> ~(IsFinite(x) /\ x[2] = 1)
      [] c.kind = "min" -> RLt(x, c.value)
      [] c.kind = "gt"  -> RLe(x, c.value)
      [] c.kind = "max" -> RGt(x, c.value)

\* the messages of the checks of a z.number() that x fails, every check run
RECURSIVE checkMessages(_, _, _)
checkMessages(x, checks, i) ==
    IF i > Len(checks) THEN <<>>
    ELSE (IF failsCheck(x, checks[i]) THEN << checks[i].message >> ELSE <<>>)
         \o checkMessages(x, checks, i + 1)

numberMessages(x, checks) ==
    IF IsNaN(x) THEN << "Expected number, received nan" >>
    ELSE checkMessages(x, checks, 1)

\* mutant: parsing stops at the first field that has an issue
RECURSIVE fieldIssues_firstFieldOnly(_, _)
fieldIssues_firstFieldOnly(p, i) ==
    IF i > Len(ROICalculationSchema) THEN <<>>
    ELSE LET field == ROICalculationSchema[i][1]
             msgs == numberMessages(p[field], ROICalculationSchema[i][2])
         IN  IF msgs # <<>> THEN [k \in 1 .. Len(msgs) |-> <<field, msgs[k]>>]
             ELSE fieldIssues_firstFieldOnly(p, i + 1)

\* the issues of the numeric fields from the i-th on, as <<field, message>>
RECURSIVE fieldIssues(_, _)
fieldIssues(p, i) ==
    IF i > Len(ROICalculationSchema) THEN <<>>
    ELSE LET field == ROICalculationSchema[i][1]
             msgs == numberMessages(p[field], ROICalculationSchema[i][2])
         IN  [k \in 1 .. Len(msgs) |-> <<field, msgs[k]>>] \o fieldIssues(p, i + 1)

\* a number is a pair <<n, d>>; the strings a field can hold are the
\* three-letter currency codes
IsNumber(v) == Len(v) = 2

\* z.enum: a value that is not a string is an invalid_type issue
currencyIssues(p) ==
    IF IsNumber(p.currency)
    THEN << <<"currency", "Expected 'EUR' | 'GBP' | 'USD', received number" >> >>
    ELSE IF p.currency \in CurrencyEnum THEN <<>>
    ELSE << <<"currency", "Invalid enum value" >> >>

\* ROICalculationSchema.safeParse(inputs).error.errors
schemaIssues(p) ==
    IF IsNull(p) THEN << <<"", "Expected object, received null">> >>
    ELSE fieldIssues(p, 1) \o currencyIssues(p)

\* validateInputs: each issue formatted as `${field}: ${message}`
validateInputs(p) ==
    LET issues == schemaIssues(p)
    IN  IF issues = <<>>
        THEN [success |-> TRUE, data |-> p]
        ELSE [success |-> FALSE,
              errors |-> [k \in 1 .. Len(issues) |->
                             [field |-> issues[k][1], message |-> issues[k][2]]]]

-----------------------------------------------------------------------------
(* lib/formulas.ts: the per-field rule table and validateField *)

Rule(min, max, step, unit) == [min |-> min, max |-> max, step |-> step, unit |-> unit]

VALIDATION_RULES ==
    [headcount |-> Rule(R(1), R(100000), R(1), "employees"),
     dseUserPercentage |-> Rule(R(0), R(100), Frac(1, 10), "%"),
     adminSalary |-> Rule(R(0), R(1000000), R(1000), "€/year"),
     adminTimeNow |-> Rule(R(0), R(7), Frac(1, 2), "days/week"),
     adminTimeWithSoftware |-> Rule(R(0), R(7), Frac(1, 2), "days/week"),
     softwarePricePerUser |-> Rule(R(0), R(10000), R(10), "€/user/year"),
     baselineAbsenceRate |-> Rule(R(0), R(100), Frac(1, 10), "%"),
     costPerAbsenceDay |-> Rule(R(0), R(10000), R(50), "€/day"),
     msdPrevalence |-> Rule(R(0), R(100), Frac(1, 10), "%"),
     reductionInMsdAbsence |-> Rule(R(0), R(100), Frac(1, 10), "%"),
     reductionInClinicalInterventions |-> Rule(R(0), R(100), Frac(1, 10), "%"),
     costPerClinicalIntervention |-> Rule(R(0), R(100000), R(100), "€"),
     workDaysPerYear |-> Rule(R(200), R(260), R(1), "days"),
     absenceDueToMsdPercentage |-> Rule(R(0), R(100), Frac(1, 10), "%"),
     msdNeedingInterventionPercentage |-> Rule(R(0), R(100), Frac(1, 10), "%"),
     adminOnCostPercentage |-> Rule(R(0), R(100), Frac(1, 10), "%")]

getFieldConstraints(field) == VALIDATION_RULES[field]

\* validateField on a number (parseFloat of the text typed); the message
\* template `${field} must be at least ${rules.min} ${rules.unit}` is kept as
\* its parts, the empty message as <<>>
validateField(field, value) ==
    IF field \notin DOMAIN VALIDATION_RULES THEN [valid |-> TRUE, message |-> <<>>]
    ELSE LET rules == VALIDATION_RULES[field]
         IN  IF IsNaN(value)
             THEN [valid |-> FALSE, message |-> << field, "must be a valid number" >>]
             ELSE IF RLt(value, rules.min)
             THEN [valid |-> FALSE,
                   message |-> << field, "must be at least", rules.min, rules.unit >>]
             ELSE IF RGt(value, rules.max)
             THEN [valid |-> FALSE,
                   message |-> << field, "cannot exceed", rules.max, rules.unit >>]
             ELSE [valid |-> TRUE, message |-> <<>>]

\* mutant: the admin-time rule compares with > instead of >=
validateBusinessLogic_strict(p) ==
    (IF RGt(p.adminTimeWithSoftware, p.adminTimeNow)
     THEN << "Admin time with software must be less than current admin time" >>
     ELSE <<>>)
    \o (IF RGt(p.dseUserPercentage, R(100))
        THEN << "DSE user percentage cannot exceed 100%" >> ELSE <<>>)
    \o (IF RLt(p.workDaysPerYear, R(200)) \/ RGt(p.workDaysPerYear, R(260))
        THEN << "Work days per year should be between 200-260" >> ELSE <<>>)

\* validateBusinessLogic (the same in lib/schema.ts and lib/formulas.ts): the
\* messages of the three cross-field rules that fail, in this order
validateBusinessLogic(p) ==
    (IF RGe(p.adminTimeWithSoftware, p.adminTimeNow)
     THEN << "Admin time with software must be less than current admin time" >>
     ELSE <<>>)
    \o (IF RGt(p.dseUserPercentage, R(100))
        THEN << "DSE user percentage cannot exceed 100%" >> ELSE <<>>)
    \o (IF RLt(p.workDaysPerYear, R(200)) \/ RGt(p.workDaysPerYear, R(260))
        THEN << "Work days per year should be between 200-260" >> ELSE <<>>)

-----------------------------------------------------------------------------
(* lib/test-data.ts and lib/test-runner.ts.  A range string is the sequence *)
(* of its characters, so that parseRange reads it as the code does.        *)

TEST_SCENARIOS == <<
    [name |-> "Small Company (100 employees) - High Risk",
     inputs |->
         [headcount |-> R(100), dseUserPercentage |-> R(60),
          adminSalary |-> R(45000), adminTimeNow |-> R(0),
          adminTimeWithSoftware |-> R(1), softwarePricePerUser |-> R(15),
          baselineAbsenceRate |-> R(4), costPerAbsenceDay |-> R(250),
          msdPrevalence |-> R(20), reductionInMsdAbsence |-> R(20),
          reductionInClinicalInterventions |-> R(30),
          costPerClinicalIntervention |-> R(500), workDaysPerYear |-> R(220),
          absenceDueToMsdPercentage |-> R(25),
          msdNeedingInterventionPercentage |-> R(15),
          adminOnCostPercentage |-> R(25), currency |-> "EUR"],
     expectedResults |->
         [roiRange |-> << "8", "0", "0", "-", "1", "2", "0", "0", "%" >>,
          paybackMonths |-> << "2", "-", "4", " ", "m", "o", "n", "t", "h", "s" >>,
          annualSavings |->
              << "€", "1", "5", ",", "0", "0", "0", "-", "2", "5", ",", "0", "0", "0" >>]],
    [name |-> "Medium Company (500 employees) - Typical Case",
     inputs |->
         [headcount |-> R(500), dseUserPercentage |-> R(70),
          adminSalary |-> R(65000), adminTimeNow |-> R(2),
          adminTimeWithSoftware |-> Frac(4, 5), softwarePricePerUser |-> R(12),
          baselineAbsenceRate |-> R(5), costPerAbsenceDay |-> R(300),
          msdPrevalence |-> R(25), reductionInMsdAbsence |-> R(15),
          reductionInClinicalInterventions |-> R(25),
          costPerClinicalIntervention |-> R(600), workDaysPerYear |-> R(220),
          absenceDueToMsdPercentage |-> R(30),
          msdNeedingInterventionPercentage |-> R(20),
          adminOnCostPercentage |-> R(30), currency |-> "EUR"],
     expectedResults |->
         [roiRange |-> << "4", "0", "0", "-", "6", "0", "0", "%" >>,
          paybackMonths |-> << "4", "-", "6", " ", "m", "o", "n", "t", "h", "s" >>,
          annualSavings |->
              << "€", "4", "5", ",", "0", "0", "0", "-", "6", "5", ",", "0", "0", "0" >>]],
    [name |-> "Large Company (1000 employees) - Efficiency Focus",
     inputs |->
         [headcount |-> R(1000), dseUserPercentage |-> R(80),
          adminSalary |-> R(80000), adminTimeNow |-> R(4),
          adminTimeWithSoftware |-> Frac(3, 2), softwarePricePerUser |-> R(10),
          baselineAbsenceRate |-> R(6), costPerAbsenceDay |-> R(350),
          msdPrevalence |-> R(30), reductionInMsdAbsence |-> R(12),
          reductionInClinicalInterventions |-> R(20),
          costPerClinicalIntervention |-> R(700), workDaysPerYear |-> R(220),
          absenceDueToMsdPercentage |-> R(35),
          msdNeedingInterventionPercentage |-> R(25),
          adminOnCostPercentage |-> R(35), currency |-> "EUR"],
     expectedResults |->
         [roiRange |-> << "2", "5", "0", "-", "4", "0", "0", "%" >>,
          paybackMonths |-> << "6", "-", "8", " ", "m", "o", "n", "t", "h", "s" >>,
          annualSavings |->
              << "€", "8", "0", ",", "0", "0", "0", "-", "1", "2", "0", ",", "0", "0", "0" >>]],
    [name |-> "Manufacturing Company (300 employees) - High MSD Risk",
     inputs |->
         [headcount |-> R(300), dseUserPercentage |-> R(50),
          adminSalary |-> R(55000), adminTimeNow |-> R(1),
          adminTimeWithSoftware |-> Frac(6, 5), softwarePricePerUser |-> R(14),
          baselineAbsenceRate |-> R(7), costPerAbsenceDay |-> R(280),
          msdPrevalence |-> R(35), reductionInMsdAbsence |-> R(25),
          reductionInClinicalInterventions |-> R(35),
          costPerClinicalIntervention |-> R(800), workDaysPerYear |-> R(220),
          absenceDueToMsdPercentage |-> R(40),
          msdNeedingInterventionPercentage |-> R(30),
          adminOnCostPercentage |-> R(28), currency |-> "EUR"],
     expectedResults |->
         [roiRange |-> << "6", "0", "0", "-", "9", "0", "0", "%" >>,
          paybackMonths |-> << "3", "-", "5", " ", "m", "o", "n", "t", "h", "s" >>,
          annualSavings |->
              << "€", "3", "5", ",", "0", "0", "0", "-", "5", "5", ",", "0", "0", "0" >>]],
    [name |-> "Tech Company (2000 employees) - Low Risk, High Efficiency",
     inputs |->
         [headcount |-> R(2000), dseUserPercentage |-> R(95),
          adminSalary |-> R(90000), adminTimeNow |-> R(6),
          adminTimeWithSoftware |-> R(2), softwarePricePerUser |-> R(8),
          baselineAbsenceRate |-> R(3), costPerAbsenceDay |-> R(400),
          msdPrevalence |-> R(15), reductionInMsdAbsence |-> R(8),
          reductionInClinicalInterventions |-> R(15),
          costPerClinicalIntervention |-> R(500), workDaysPerYear |-> R(220),
          absenceDueToMsdPercentage |-> R(20),
          msdNeedingInterventionPercentage |-> R(15),
          adminOnCostPercentage |-> R(40), currency |-> "EUR"],
     expectedResults |->
         [roiRange |-> << "1", "5", "0", "-", "2", "5", "0", "%" >>,
          paybackMonths |-> << "8", "-", "1", "2", " ", "m", "o", "n", "t", "h", "s" >>,
          annualSavings |->
              << "€", "1", "2", "0", ",", "0", "0", "0", "-", "1", "8", "0", ",", "0", "0", "0" >>]] >>

\* the inputs of validateBasicCalculations
basicCalculationInputs ==
    [headcount |-> R(100), dseUserPercentage |-> R(60),
     adminSalary |-> R(50000), adminTimeNow |-> R(2),
     adminTimeWithSoftware |-> R(1), softwarePricePerUser |-> R(15),
     baselineAbsenceRate |-> R(5), costPerAbsenceDay |-> R(300),
     msdPrevalence |-> R(25), reductionInMsdAbsence |-> R(15),
     reductionInClinicalInterventions |-> R(25),
     costPerClinicalIntervention |-> R(600), workDaysPerYear |-> R(220),
     absenceDueToMsdPercentage |-> R(30),
     msdNeedingInterventionPercentage |-> R(20),
     adminOnCostPercentage |-> R(30), currency |-> "EUR"]

DigitCharacters == {"0", "1", "2", "3", "4", "5", "6", "7", "8", "9"}

digitValue(c) ==
    CASE c = "0" -> 0 [] c = "1" -> 1 [] c = "2" -> 2 [] c = "3" -> 3 [] c = "4" -> 4
      [] c = "5" -> 5 [] c = "6" -> 6 [] c = "7" -> 7 [] c = "8" -> 8 [] c = "9" -> 9

\* rangeStr.match(/\d+/g): the maximal runs of digits of str from its i-th
\* character on, left to right, run being the digits read since the last
\* character that is not a digit
RECURSIVE matchDigits(_, _, _)
matchDigits(str, i, run) ==
    IF i > Len(str) THEN (IF run = <<>> THEN <<>> ELSE << run >>)
    ELSE IF str[i] \in DigitCharacters THEN matchDigits(str, i + 1, Append(run, str[i]))
    ELSE (IF run = <<>> THEN <<>> ELSE << run >>) \o matchDigits(str, i + 1, <<>>)

\* parseInt of a run of digits, acc being the value of the digits before i
RECURSIVE parseInt(_, _, _)
parseInt(run, i, acc) ==
    IF i > Len(run) THEN acc ELSE parseInt(run, i + 1, 10 * acc + digitValue(run[i]))

\* parseRange: the first two runs of digits of the string, as numbers
parseRange(rangeStr) ==
    LET numbers == matchDigits(rangeStr, 1, <<>>)
    IN  IF Len(numbers) >= 2
        THEN [min |-> R(parseInt(numbers[1], 1, 0)), max |-> R(parseInt(numbers[2], 1, 0))]
        ELSE [min |-> R(0), max |-> R(0)]

inRange(x, range) == RGe(x, range.min) /\ RLe(x, range.max)

\* the TestResult built from the engine's result r and the three parsed ranges
TestResult(scenario, r, roiRange, paybackRange, savingsRange) ==
    [scenarioName |-> scenario.name,
     passed |-> /\ inRange(r.roiPercentage, roiRange)
                /\ inRange(r.paybackMonths, paybackRange)
                /\ inRange(r.totalAnnualSavings, savingsRange),
     roiInRange |-> inRange(r.roiPercentage, roiRange),
     paybackInRange |-> inRange(r.paybackMonths, paybackRange),
     savingsInRange |-> inRange(r.totalAnnualSavings, savingsRange),
     roiRange |-> roiRange, paybackRange |-> paybackRange,
     savingsRange |-> savingsRange,
     actual |-> [roiPercentage |-> r.roiPercentage,
                 paybackMonths |-> r.paybackMonths,
                 totalAnnualSavings |-> r.totalAnnualSavings]]

\* validateScenario: the fields of the TestResult that depend on the engine;
\* the engine's result and the ranges are each computed once
validateScenario(scenario) ==
    CHOOSE testResultOf \in
        { TestResult(scenario, r, roiRange, paybackRange, savingsRange) :
              r \in { calculateROI(scenario.inputs, "expected") },
              roiRange \in { parseRange(scenario.expectedResults.roiRange) },
              paybackRange \in { parseRange(scenario.expectedResults.paybackMonths) },
              savingsRange \in { parseRange(scenario.expectedResults.annualSavings) } } :
        TRUE

\* Math.abs(actual - expected) / expected * 100 < tolerance
withinTolerance(actual, expected, tolerance) ==
    RLt(RMul(RDiv(MathAbs(RSub(actual, expected)), expected), R(100)), tolerance)

\* the TestResult of validateBasicCalculations built from the engine's
\* result r; the expected values are the products written out in the test,
\* which evaluate to 13000, 8910 and 450
BasicTestResult(r) ==
    LET onCostMultiplier == RAdd(R(1), Frac(30, 100))
        adminCostNow == RMul(RMul(R(50000), onCostMultiplier), Frac(2, 5))
        adminCostWithSoftware == RMul(RMul(R(50000), onCostMultiplier), Frac(1, 5))
        expectedAdminSaving == RSub(adminCostNow, adminCostWithSoftware)
        expectedAbsenceSaving ==
            RMul(RMul(RMul(RMul(RMul(R(60), Frac(5, 100)), R(220)), Frac(30, 100)),
                      R(300)), Frac(15, 100))
        expectedInterventionSaving ==
            RMul(RMul(RMul(RMul(R(60), Frac(25, 100)), Frac(25, 100)), R(600)),
                 Frac(20, 100))
        tolerance == R(5)
    IN  [scenarioName |-> "Basic Calculation Validation",
         passed |-> /\ withinTolerance(r.adminSaving, expectedAdminSaving, tolerance)
                    /\ withinTolerance(r.absenceSaving, expectedAbsenceSaving, tolerance)
                    /\ withinTolerance(r.interventionSaving,
                                       expectedInterventionSaving, tolerance),
         expected |-> [adminSaving |-> expectedAdminSaving,
                       absenceSaving |-> expectedAbsenceSaving,
                       interventionSaving |-> expectedInterventionSaving],
         actual |-> [adminSaving |-> r.adminSaving,
                     absenceSaving |-> r.absenceSaving,
                     interventionSaving |-> r.interventionSaving]]

\* validateBasicCalculations: the engine's result is computed once
validateBasicCalculations ==
    CHOOSE testResultOf \in
        { BasicTestResult(r) : r \in { calculateROI(basicCalculationInputs, "expected") } } :
        TRUE

-----------------------------------------------------------------------------
(* The callers: parameter sets handed to the engine and the calls made *)

\* headcounts tried: none, below the first tier, tier starts, both discount bands
Headcounts == {R(0), R(1), R(100), R(800), R(5000), R(10000)}

\* 150 is outside the validator's range
DsePercentages == {R(0), R(50), R(100), R(150)}

AdminSalaries == {R(50000), R(80000)}

AdminTimesNow == {R(0), R(2), R(5)}

AdminTimesWithSoftware == {R(0), Frac(3, 2), R(7)}

SoftwarePrices == {R(10), R(70)}

AbsenceReductions == {R(0), R(15), R(100)}

InterventionReductions == {R(0), R(25), R(80)}

\* the parameter sets tried: the default set with the fields above varied
ParameterSets ==
    { [DEFAULT_INPUTS EXCEPT
          !.headcount = h, !.dseUserPercentage = d, !.adminSalary = sal,
          !.adminTimeNow = tn, !.adminTimeWithSoftware = tw,
          !.softwarePricePerUser = sp, !.reductionInMsdAbsence = ra,
          !.reductionInClinicalInterventions = ri] :
        h \in Headcounts, d \in DsePercentages, sal \in AdminSalaries,
        tn \in AdminTimesNow, tw \in AdminTimesWithSoftware, sp \in SoftwarePrices,
        ra \in AbsenceReductions, ri \in InterventionReductions }

\* a parameter set whose only saving, the admin saving, is exactly the
\* licence cost for 100 staff
BreakEvenInputs ==
    [DEFAULT_INPUTS EXCEPT
        !.headcount = R(100), !.dseUserPercentage = R(0),
        !.adminSalary = calculateSoftwareCost(R(100)).annualPrice,
        !.adminOnCostPercentage = R(0),
        !.adminTimeNow = R(5), !.adminTimeWithSoftware = R(0)]

NotCalled == [called |-> FALSE]

\* the parameter sets of the test runner
TestInputs ==
    { basicCalculationInputs }
        \cup { TEST_SCENARIOS[i].inputs : i \in DOMAIN TEST_SCENARIOS }

Init ==
    /\ inputs \in ParameterSets \cup TestInputs \cup {BreakEvenInputs, Null}
    /\ result = NotCalled
    /\ scenarios = NotCalled
    /\ cost = NotCalled
    /\ sensitivity = NotCalled
    /\ validation = NotCalled
    /\ testResult = NotCalled
    /\ AppState(FALSE)

\* no call has been made on this parameter set yet
Idle ==
    /\ result = NotCalled
    /\ scenarios = NotCalled
    /\ cost = NotCalled
    /\ sensitivity = NotCalled
    /\ validation = NotCalled
    /\ testResult = NotCalled

\* a caller runs calculateROI(inputs, scenario)
CallCalculateROI(scenario) ==
    /\ Idle
    /\ result' = [called |-> TRUE, scenario |-> scenario,
                  value |-> calculateROI(inputs, scenario)]
    /\ inputs' = callerAfterCalculateROI(inputs, scenario)
    /\ UNCHANGED <<scenarios, cost, sensitivity, validation, testResult>>
    /\ UNCHANGED appVars

\* a caller runs calculateAllScenarios(inputs)
CallCalculateAllScenarios ==
    /\ Idle
    /\ scenarios' = [called |-> TRUE, value |-> calculateAllScenarios(inputs)]
    /\ inputs' = callerAfterCalculateAllScenarios(inputs)
    /\ UNCHANGED <<result, cost, sensitivity, validation, testResult>>
    /\ UNCHANGED appVars

\* a caller runs calculateSoftwareCost(inputs.headcount)
CallCalculateSoftwareCost ==
    /\ Idle
    /\ ~IsNull(inputs)
    /\ cost' = [called |-> TRUE, value |-> calculateSoftwareCost(inputs.headcount)]
    /\ UNCHANGED <<inputs, result, scenarios, sensitivity, validation, testResult>>
    /\ UNCHANGED appVars

\* a caller runs performSensitivityAnalysis(inputs, parameters) on an object
CallPerformSensitivityAnalysis(parameters) ==
    /\ Idle
    /\ ~IsNull(inputs)
    /\ sensitivity' = [called |-> TRUE, parameters |-> parameters,
                       value |-> performSensitivityAnalysis(inputs, parameters)]
    /\ inputs' = callerAfterSensitivityAnalysis(inputs, parameters)
    /\ UNCHANGED <<result, scenarios, cost, validation, testResult>>
    /\ UNCHANGED appVars

\* a caller runs validateBusinessLogic(inputs) on an object
CallValidateBusinessLogic ==
    /\ Idle
    /\ ~IsNull(inputs)
    /\ validation' = [called |-> TRUE, of |-> "businessLogic",
                      value |-> validateBusinessLogic(inputs)]
    /\ UNCHANGED <<inputs, result, scenarios, cost, sensitivity, testResult>>
    /\ UNCHANGED appVars

\* the test runner runs validateScenario on the i-th test scenario
CallValidateScenario(i) ==
    /\ Idle
    /\ inputs = TEST_SCENARIOS[i].inputs
    /\ testResult' = [called |-> TRUE, value |-> validateScenario(TEST_SCENARIOS[i])]
    /\ UNCHANGED <<inputs, result, scenarios, cost, sensitivity, validation>>
    /\ UNCHANGED appVars

\* the test runner runs validateBasicCalculations
CallValidateBasicCalculations ==
    /\ Idle
    /\ inputs = basicCalculationInputs
    /\ testResult' = [called |-> TRUE, value |-> validateBasicCalculations]
    /\ UNCHANGED <<inputs, result, scenarios, cost, sensitivity, validation>>
    /\ UNCHANGED appVars

Next ==
    \/ \E scenario \in Scenarios : CallCalculateROI(scenario)
    \/ CallCalculateAllScenarios
    \/ CallValidateBusinessLogic
    \/ \E i \in DOMAIN TEST_SCENARIOS : CallValidateScenario(i)
    \/ CallValidateBasicCalculations

Spec == Init /\ [][Next]_vars

\* the pricing resolver alone, over every headcount the validator admits
MaxHeadcount == 100000

PricingInit ==
    /\ inputs \in { [DEFAULT_INPUTS EXCEPT !.headcount = R(h)] : h \in 0 .. MaxHeadcount }
    /\ result = NotCalled
    /\ scenarios = NotCalled
    /\ cost = NotCalled
    /\ sensitivity = NotCalled
    /\ validation = NotCalled
    /\ testResult = NotCalled
    /\ AppState(FALSE)

PricingNext == CallCalculateSoftwareCost

PricingSpec == PricingInit /\ [][PricingNext]_vars

\* the numeric fields of a parameter set
NumericInputFields == { ROICalculationSchema[i][1] : i \in DOMAIN ROICalculationSchema }

\* the parameter lists analysed: each numeric field alone, the default list,
\* and a pair that is not part of the default list
ParameterLists ==
    { << f >> : f \in NumericInputFields }
        \cup { defaultParameters, << "headcount", "dseUserPercentage" >> }

\* the parameter sets analysed: the default set with six fields varied
AnalysisSets ==
    { [DEFAULT_INPUTS EXCEPT
          !.headcount = h, !.dseUserPercentage = d, !.adminTimeNow = tn,
          !.adminTimeWithSoftware = tw, !.reductionInMsdAbsence = ra,
          !.reductionInClinicalInterventions = ri] :
        h \in {R(0), R(1), R(100), R(800), R(5000)}, d \in {R(0), R(50), R(100)},
        tn \in {R(0), R(5)}, tw \in {Frac(3, 2), R(7)},
        ra \in {R(15), R(100)}, ri \in {R(0), R(25)} }

AnalysisInit ==
    /\ inputs \in AnalysisSets
    /\ result = NotCalled
    /\ scenarios = NotCalled
    /\ cost = NotCalled
    /\ sensitivity = NotCalled
    /\ validation = NotCalled
    /\ testResult = NotCalled
    /\ AppState(FALSE)

\* the engine's three entry points, each called once on a parameter set
AnalysisNext ==
    \/ \E scenario \in Scenarios : CallCalculateROI(scenario)
    \/ CallCalculateAllScenarios
    \/ \E parameters \in ParameterLists : CallPerformSensitivityAnalysis(parameters)

AnalysisSpec == AnalysisInit /\ [][AnalysisNext]_vars

\* a caller runs validateInputs(inputs)
CallValidateInputs ==
    /\ Idle
    /\ validation' = [called |-> TRUE, of |-> "inputs", value |-> validateInputs(inputs)]
    /\ UNCHANGED <<inputs, result, scenarios, cost, sensitivity, testResult>>
    /\ UNCHANGED appVars

\* the form runs validateField(field, inputs[field]) on a change of the field
CallValidateField(field) ==
    /\ Idle
    /\ validation' = [called |-> TRUE, of |-> "field", field |-> field,
                      value |-> validateField(field, inputs[field])]
    /\ UNCHANGED <<inputs, result, scenarios, cost, sensitivity, testResult>>
    /\ UNCHANGED appVars

\* mutant: on a failed validation the results of the last valid inputs stay
AppUseEffect_keepsResults ==
    /\ effectPending
    /\ effectPending' = FALSE
    /\ LET validationResult == validateInputs(inputs)
       IN  /\ validation' = [called |-> TRUE, of |-> "inputs", value |-> validationResult]
           /\ IF validationResult.success
              THEN /\ validationErrors' = <<>>
                   /\ scenarios' = [called |-> TRUE,
                                    value |-> calculateAllScenarios(inputs)]
                   /\ sensitivity' =
                          [called |-> TRUE, parameters |-> defaultParameters,
                           value |-> performSensitivityAnalysis(
                                         callerAfterCalculateAllScenarios(inputs),
                                         defaultParameters)]
                   /\ sensitivityData' = sensitivity'.value
                   /\ inputs' = callerAfterSensitivityAnalysis(
                                    callerAfterCalculateAllScenarios(inputs),
                                    defaultParameters)
              ELSE /\ validationErrors' = validationResult.errors
                   /\ UNCHANGED <<inputs, scenarios, sensitivity, sensitivityData>>
    /\ UNCHANGED <<result, cost, testResult, activeScenario, fieldErrors>>

\* App's effect on [inputs], run after a render in which inputs was set:
\* validate, and on success run calculateAllScenarios and
\* performSensitivityAnalysis with its default list; on failure setScenarios(null)
\* (no result held: NotCalled) and setSensitivityData([])
AppUseEffect ==
    /\ effectPending
    /\ effectPending' = FALSE
    /\ LET validationResult == validateInputs(inputs)
       IN  /\ validation' = [called |-> TRUE, of |-> "inputs", value |-> validationResult]
           /\ IF validationResult.success
              THEN /\ validationErrors' = <<>>
                   /\ scenarios' = [called |-> TRUE,
                                    value |-> calculateAllScenarios(inputs)]
                   /\ sensitivity' =
                          [called |-> TRUE, parameters |-> defaultParameters,
                           value |-> performSensitivityAnalysis(
                                         callerAfterCalculateAllScenarios(inputs),
                                         defaultParameters)]
                   /\ sensitivityData' = sensitivity'.value
                   /\ inputs' = callerAfterSensitivityAnalysis(
                                    callerAfterCalculateAllScenarios(inputs),
                                    defaultParameters)
              ELSE /\ validationErrors' = validationResult.errors
                   /\ scenarios' = NotCalled
                   /\ sensitivityData' = <<>>
                   /\ UNCHANGED <<inputs, sensitivity>>
    /\ UNCHANGED <<result, cost, testResult, activeScenario, fieldErrors>>

\* the candidates handed to the validators: the default set with values on,
\* inside and outside the limits of the schema and of the rule table, a
\* fractional headcount and work-day count, a NaN and an unknown currency
Candidates ==
    { [DEFAULT_INPUTS EXCEPT
          !.headcount = h, !.dseUserPercentage = d, !.adminSalary = sal,
          !.adminTimeNow = tn, !.softwarePricePerUser = sp,
          !.costPerAbsenceDay = cd, !.workDaysPerYear = wd, !.currency = cur] :
        h \in {R(-1), R(0), Frac(1, 2), R(1), R(800), R(100000), R(100001)},
        d \in {R(50), R(150)},
        sal \in {R(-5), R(0), R(80000)},
        tn \in {R(5), R(10)},
        sp \in {R(0), R(10), R(20000)},
        cd \in {R(300), NaN},
        wd \in {R(199), R(220), Frac(441, 2), R(261)},
        cur \in {"EUR", "JPY"} }

ValidationInit ==
    /\ inputs \in Candidates
    /\ result = NotCalled
    /\ scenarios = NotCalled
    /\ cost = NotCalled
    /\ sensitivity = NotCalled
    /\ validation = NotCalled
    /\ testResult = NotCalled
    /\ AppState(TRUE)

ValidationNext ==
    \/ CallValidateInputs
    \/ \E field \in NumericInputFields : CallValidateField(field)
    \/ AppUseEffect

ValidationSpec == ValidationInit /\ [][ValidationNext]_vars

-----------------------------------------------------------------------------
(* App.tsx and components/InputForm.tsx: the form's handlers and the App state *)

\* a JavaScript value handed to onInputChange with its typeof; the text of a
\* string is the sequence of its characters
JSString(chars) == [type |-> "string", chars |-> chars]

\* the leading run of digits of str from its i-th character on
RECURSIVE digitsFrom(_, _)
digitsFrom(str, i) ==
    IF i > Len(str) \/ str[i] \notin DigitCharacters THEN <<>>
    ELSE << str[i] >> \o digitsFrom(str, i + 1)

RECURSIVE Pow10(_)
Pow10(k) == IF k = 0 THEN 1 ELSE 10 * Pow10(k - 1)

\* mutant: a text without a leading number parses to 0
parseFloat_zeroForText(str) ==
    LET signed == Len(str) >= 1 /\ str[1] \in {"-", "+"}
        first == IF signed THEN 2 ELSE 1
        whole == digitsFrom(str, first)
        point == first + Len(whole)
        fraction == IF point <= Len(str) /\ str[point] = "."
                    THEN digitsFrom(str, point + 1) ELSE <<>>
        magnitude == Frac(parseInt(whole, 1, 0) * Pow10(Len(fraction))
                              + parseInt(fraction, 1, 0),
                          Pow10(Len(fraction)))
    IN  IF whole = <<>> /\ fraction = <<>> THEN R(0)
        ELSE IF signed /\ str[1] = "-" THEN RNeg(magnitude) ELSE magnitude

\* parseFloat of a text: an optional sign, digits, an optional point and
\* digits, read from the start; NaN when no digit is read (exponents and
\* leading blanks are not in the texts tried)
parseFloat(str) ==
    LET signed == Len(str) >= 1 /\ str[1] \in {"-", "+"}
        first == IF signed THEN 2 ELSE 1
        whole == digitsFrom(str, first)
        point == first + Len(whole)
        fraction == IF point <= Len(str) /\ str[point] = "."
                    THEN digitsFrom(str, point + 1) ELSE <<>>
        magnitude == Frac(parseInt(whole, 1, 0) * Pow10(Len(fraction))
                              + parseInt(fraction, 1, 0),
                          Pow10(Len(fraction)))
    IN  IF whole = <<>> /\ fraction = <<>> THEN NaN
        ELSE IF signed /\ str[1] = "-" THEN RNeg(magnitude) ELSE magnitude

\* parseInt of a text typed into the headcount field: an optional sign and
\* the digits that follow; NaN when there is none
parseIntOfText(str) ==
    LET signed == Len(str) >= 1 /\ str[1] \in {"-", "+"}
        whole == digitsFrom(str, IF signed THEN 2 ELSE 1)
    IN  IF whole = <<>> THEN NaN
        ELSE IF signed /\ str[1] = "-" THEN R(-parseInt(whole, 1, 0))
        ELSE R(parseInt(whole, 1, 0))

digitCharacter(k) == << "0", "1", "2", "3", "4", "5", "6", "7", "8", "9" >>[k + 1]

\* the decimal digits of a natural number
RECURSIVE digitsOf(_)
digitsOf(k) ==
    IF k < 10 THEN << digitCharacter(k) >>
    ELSE digitsOf(k \div 10) \o << digitCharacter(k % 10) >>

\* Number.prototype.toString of a non-negative number of at most two
\* decimals (perUser is rounded to two): no trailing zeros, no point for an
\* integer
numberToString(x) ==
    LET hundredths == (x[1] * 100) \div x[2]
        whole == hundredths \div 100
        cents == hundredths % 100
    IN  IF cents = 0 THEN digitsOf(whole)
        ELSE IF cents % 10 = 0 THEN digitsOf(whole) \o << ".", digitCharacter(cents \div 10) >>
        ELSE digitsOf(whole)
                 \o << ".", digitCharacter(cents \div 10), digitCharacter(cents % 10) >>

\* x || 0 on a number: NaN and 0 are falsy
OrZero(x) == IF IsNaN(x) \/ x = R(0) THEN R(0) ELSE x

\* the updater App.handleInputChange hands to setInputs, applied to prev
handleInputChange(prev, field, value) ==
    [prev EXCEPT ![field] = IF value.type = "string"
                            THEN OrZero(parseFloat(value.chars))
                            ELSE value.number]

\* the updater InputForm.handleFieldChange hands to setFieldErrors for a
\* field other than currency, applied to prev; value is the text typed
setFieldErrors(prev, field, value) ==
    LET checked == validateField(field, parseFloat(value))
    IN  IF ~checked.valid
        THEN [f \in DOMAIN prev \cup {field} |->
                 IF f = field THEN checked.message ELSE prev[f]]
        ELSE [f \in DOMAIN prev \ {field} |-> prev[f]]

\* the characters of the values of the currency Select
characters(code) ==
    CASE code = "EUR" -> << "E", "U", "R" >>
      [] code = "GBP" -> << "G", "B", "P" >>
      [] code = "USD" -> << "U", "S", "D" >>

\* the texts typed into the headcount field: nothing, whole numbers in a
\* flat tier and in a discount band, and a number with decimals
HeadcountTexts == { <<>>, << "5", "0", "0", "0" >>, << "1", "2", ".", "5" >> }

\* the other fields typed into and the texts typed
TypedFields == { "dseUserPercentage" }

AdvancedFields == { "workDaysPerYear" }

TypedTexts == { << "1", "5", "0" >>, << "2", "5", "0" >> }

\* React runs the effect of a render before it handles the next event, so a
\* handler runs only when no effect is pending

\* InputForm: a text typed into a field other than headcount
\* (handleFieldChange, then App.handleInputChange)
HandleFieldChange(field, value) ==
    /\ ~effectPending
    /\ fieldErrors' = setFieldErrors(fieldErrors, field, value)
    /\ inputs' = handleInputChange(inputs, field, JSString(value))
    /\ effectPending' = TRUE
    /\ UNCHANGED <<result, scenarios, cost, sensitivity, validation, testResult,
                   activeScenario, validationErrors, sensitivityData>>

\* InputForm: a text typed into the headcount field; when it starts with a
\* whole number the per-user price of that number is entered as well
HeadcountOnChange(value) ==
    /\ ~effectPending
    /\ LET newHeadcount == parseIntOfText(value)
           priceText == numberToString(calculateSoftwareCost(newHeadcount).perUser)
       IN  IF ~IsNaN(newHeadcount)
           THEN /\ fieldErrors' =
                       setFieldErrors(setFieldErrors(fieldErrors, "headcount", value),
                                      "softwarePricePerUser", priceText)
                /\ inputs' =
                       handleInputChange(
                           handleInputChange(inputs, "headcount", JSString(value)),
                           "softwarePricePerUser", JSString(priceText))
           ELSE /\ fieldErrors' = setFieldErrors(fieldErrors, "headcount", value)
                /\ inputs' = handleInputChange(inputs, "headcount", JSString(value))
    /\ effectPending' = TRUE
    /\ UNCHANGED <<result, scenarios, cost, sensitivity, validation, testResult,
                   activeScenario, validationErrors, sensitivityData>>

\* InputForm: a value chosen in the currency Select
\* (onInputChange('currency', value), no field validation)
SelectCurrency(code) ==
    /\ ~effectPending
    /\ inputs' = handleInputChange(inputs, "currency", JSString(characters(code)))
    /\ effectPending' = TRUE
    /\ UNCHANGED <<result, scenarios, cost, sensitivity, validation, testResult,
                   activeScenario, validationErrors, sensitivityData, fieldErrors>>

\* AdvancedParameters: a text typed into one of its fields
\* (onInputChange(field, value), no field validation)
AdvancedOnChange(field, value) ==
    /\ ~effectPending
    /\ inputs' = handleInputChange(inputs, field, JSString(value))
    /\ effectPending' = TRUE
    /\ UNCHANGED <<result, scenarios, cost, sensitivity, validation, testResult,
                   activeScenario, validationErrors, sensitivityData, fieldErrors>>

\* App.resetToDefaults
resetToDefaults ==
    /\ ~effectPending
    /\ inputs' = DEFAULT_INPUTS
    /\ activeScenario' = "expected"
    /\ effectPending' = TRUE
    /\ UNCHANGED <<result, scenarios, cost, sensitivity, validation, testResult,
                   validationErrors, sensitivityData, fieldErrors>>

\* a scenario tab chosen (onScenarioChange = setActiveScenario)
setActiveScenario(scenario) ==
    /\ ~effectPending
    /\ activeScenario' = scenario
    /\ UNCHANGED <<inputs, result, scenarios, cost, sensitivity, validation, testResult,
                   validationErrors, sensitivityData, fieldErrors, effectPending>>

\* the App after mounting: the useState initial values, the effect of the
\* first render still to run
AppInit ==
    /\ inputs = DEFAULT_INPUTS
    /\ result = NotCalled
    /\ scenarios = NotCalled
    /\ cost = NotCalled
    /\ sensitivity = NotCalled
    /\ validation = NotCalled
    /\ testResult = NotCalled
    /\ AppState(TRUE)

AppNext ==
    \/ AppUseEffect
    \/ \E value \in HeadcountTexts : HeadcountOnChange(value)
    \/ \E field \in TypedFields, value \in TypedTexts : HandleFieldChange(field, value)
    \/ \E code \in CurrencyEnum : SelectCurrency(code)
    \/ \E field \in AdvancedFields, value \in TypedTexts : AdvancedOnChange(field, value)
    \/ resetToDefaults
    \/ \E scenario \in Scenarios : setActiveScenario(scenario)

AppSpec == AppInit /\ [][AppNext]_vars

-----------------------------------------------------------------------------
(* Properties of the engine, checked under Spec *)

\* calculateROI was called on an object with headcount >= 1
CalledOnStaff == result.called /\ ~IsNull(inputs) /\ RGe(inputs.headcount, R(1))

Pct(x) == RDiv(x, R(100))

\* C1: for a valid parameter set with headcount >= 1, the expected scenario
\* returns the derived sequence applied to the unadjusted inputs: the admin
\* costs, their difference, the MSD absence baseline days, the absence saving
\* and the intervention saving are the stated products of the input fields.
C1_ExpectedIsUnadjustedFormula ==
    (CalledOnStaff /\ result.scenario = "expected" /\ validateInputs(inputs).success) =>
        LET p == inputs
            r == result.value
            onCost == RAdd(R(1), Pct(p.adminOnCostPercentage))
            users == RMul(p.headcount, Pct(p.dseUserPercentage))
            now == RMul(RMul(p.adminSalary, onCost), RDiv(p.adminTimeNow, R(5)))
            with == RMul(RMul(p.adminSalary, onCost), RDiv(p.adminTimeWithSoftware, R(5)))
            days == RMul(RMul(RMul(users, Pct(p.baselineAbsenceRate)), p.workDaysPerYear),
                         Pct(p.absenceDueToMsdPercentage))
        IN  /\ r.isValid
            /\ r.adminCostNow = now
            /\ r.adminCostWithSoftware = with
            /\ r.adminSaving = RSub(now, with)
            /\ r.msdAbsenceBaselineDays = days
            /\ r.absenceSaving =
                   RMul(RMul(days, p.costPerAbsenceDay), Pct(p.reductionInMsdAbsence))
            /\ r.interventionSaving =
                   RMul(RMul(RMul(RMul(users, Pct(p.msdPrevalence)),
                                  Pct(p.reductionInClinicalInterventions)),
                             p.costPerClinicalIntervention),
                        Pct(p.msdNeedingInterventionPercentage))

\* C1 witness: an expected-scenario result for a valid set in which every
\* saving term is positive
C1_Witness ==
    /\ CalledOnStaff /\ result.scenario = "expected" /\ validateInputs(inputs).success
    /\ RGt(result.value.adminSaving, R(0))
    /\ RGt(result.value.absenceSaving, R(0))
    /\ RGt(result.value.interventionSaving, R(0))

\* the parameter set the scenario table describes: only the three adjusted
\* inputs differ from p
ScenarioTable(p, scenario) ==
    CASE scenario = "conservative" ->
            [p EXCEPT !.adminTimeWithSoftware = RAdd(@, Frac(1, 2)),
                      !.reductionInMsdAbsence = RMul(@, Frac(1, 2)),
                      !.reductionInClinicalInterventions = RMul(@, Frac(1, 2))]
      [] scenario = "expected" -> p
      [] scenario = "stretch" ->
            [p EXCEPT !.reductionInMsdAbsence = RMul(@, Frac(3, 2)),
                      !.reductionInClinicalInterventions = RMul(@, Frac(3, 2))]

\* C2: the scenario adjustment precedes every derived computation and touches
\* three inputs only: each scenario's result is the expected computation on
\* the parameter set of the scenario table (conservative: +0.5 day, both
\* reductions halved; expected: unchanged; stretch: both reductions x 1.5).
C2_ScenarioAdjustsThreeInputs ==
    CalledOnStaff =>
        result.value = calculateROI(ScenarioTable(inputs, result.scenario), "expected")

\* C2 witness: a conservative result whose three adjusted terms all differ
\* from the expected ones
C2_Witness ==
    /\ CalledOnStaff /\ result.scenario = "conservative"
    /\ LET e == calculateROI(inputs, "expected")
       IN  /\ result.value.adminCostWithSoftware # e.adminCostWithSoftware
           /\ result.value.absenceSaving # e.absenceSaving
           /\ result.value.interventionSaving # e.interventionSaving
           /\ result.value.adminCostNow = e.adminCostNow

\* C3: for a valid parameter set with positive baseline (expected) savings,
\* ROI and net benefit do not decrease from conservative to expected to stretch.
C3_ScenarioOrdering ==
    (/\ scenarios.called
     /\ validateInputs(inputs).success
     /\ RGt(scenarios.value.expected.totalAnnualSavings, R(0))) =>
        LET c == scenarios.value.conservative
            e == scenarios.value.expected
            t == scenarios.value.stretch
        IN  /\ RLe(c.roiPercentage, e.roiPercentage)
            /\ RLe(e.roiPercentage, t.roiPercentage)
            /\ RLe(c.netBenefit, e.netBenefit)
            /\ RLe(e.netBenefit, t.netBenefit)

\* C3 witness: a valid set with positive expected savings whose three
\* scenarios are strictly ordered
C3_Witness ==
    /\ scenarios.called
    /\ validateInputs(inputs).success
    /\ RGt(scenarios.value.expected.totalAnnualSavings, R(0))
    /\ RLt(scenarios.value.conservative.roiPercentage, scenarios.value.expected.roiPercentage)
    /\ RLt(scenarios.value.expected.netBenefit, scenarios.value.stretch.netBenefit)

\* the numeric fields of a result
NumericFields ==
    {"adminCostNow", "adminCostWithSoftware", "adminSaving", "licenceCost",
     "softwareCostPerUser", "msdAbsenceBaselineDays", "absenceSaving",
     "interventionSaving", "totalAnnualSavings", "netBenefit", "roiPercentage",
     "paybackMonths", "breakevenUsers"}

\* C4: with headcount = 0 the engine short-circuits in every scenario and for
\* every value of the other fields: the result is valid, has no errors, every
\* numeric field is 0, there is exactly one audit step, which notes the edge
\* case, and the resolver's nominal price is not charged.
C4_ZeroHeadcountAllZero ==
    (result.called /\ ~IsNull(inputs) /\ inputs.headcount = R(0)) =>
        /\ result.value.isValid
        /\ result.value.validationErrors = <<>>
        /\ \A f \in NumericFields : result.value[f] = R(0)
        /\ Len(result.value.calculationSteps) = 1
        /\ result.value.calculationSteps[1].step = "Edge Case: Zero Headcount"
        /\ result.value.licenceCost # calculateSoftwareCost(inputs.headcount).annualPrice

\* C4 witness: a stretch call with headcount 0 on a set whose other fields
\* would give savings
C4_Witness ==
    /\ result.called /\ ~IsNull(inputs) /\ inputs.headcount = R(0)
    /\ result.scenario = "stretch"
    /\ inputs.dseUserPercentage = R(100)
    /\ RGt(inputs.adminTimeNow, inputs.adminTimeWithSoftware)
    /\ inputs.reductionInMsdAbsence = R(100)

\* C5: every result (normal, zero-headcount, fault) is consistent: admin
\* saving is the difference of the admin costs, total savings the sum of the
\* three savings, net benefit total savings less licence cost, and ROI is
\* net benefit / licence cost x 100 when the licence cost is positive, else 0.
C5_ResultConsistent ==
    result.called =>
        LET r == result.value
        IN  /\ r.adminSaving = RSub(r.adminCostNow, r.adminCostWithSoftware)
            /\ r.totalAnnualSavings =
                   RAdd(RAdd(r.adminSaving, r.absenceSaving), r.interventionSaving)
            /\ r.netBenefit = RSub(r.totalAnnualSavings, r.licenceCost)
            /\ RGt(r.licenceCost, R(0)) =>
                   r.roiPercentage = RMul(RDiv(r.netBenefit, r.licenceCost), R(100))
            /\ r.licenceCost = R(0) => r.roiPercentage = R(0)

\* C5 witness: a normal result with a positive licence cost, three non-zero
\* savings and an ROI above 100%
C5_Witness ==
    /\ result.called /\ result.value.isValid
    /\ RGt(result.value.licenceCost, R(0))
    /\ RGt(result.value.adminSaving, R(0))
    /\ RGt(result.value.absenceSaving, R(0))
    /\ RGt(result.value.interventionSaving, R(0))
    /\ RGt(result.value.roiPercentage, R(100))

\* C6: with headcount >= 1, in every scenario, paybackMonths is
\* min(36, 12 x licenceCost / max(totalAnnualSavings, 1)); so it lies in
\* [0, 36], and is exactly 36 whenever totalAnnualSavings <= 1.
C6_PaybackCapped ==
    CalledOnStaff =>
        LET r == result.value
            floored == IF RLt(r.totalAnnualSavings, R(1)) THEN R(1)
                       ELSE r.totalAnnualSavings
            months == RDiv(RMul(R(12), r.licenceCost), floored)
        IN  /\ r.paybackMonths = (IF RLt(R(36), months) THEN R(36) ELSE months)
            /\ RLe(R(0), r.paybackMonths)
            /\ RLe(r.paybackMonths, R(36))
            /\ RLe(r.totalAnnualSavings, R(1)) => r.paybackMonths = R(36)

\* C6 witness: a result with negative total savings and a payback of 36
C6_Witness ==
    /\ CalledOnStaff
    /\ RLt(result.value.totalAnnualSavings, R(0))
    /\ result.value.paybackMonths = R(36)

C8_ZeroDseUsersNoLicenceCost ==
    (/\ CalledOnStaff /\ result.scenario = "expected"
     /\ validateInputs(inputs).success
     /\ inputs.dseUserPercentage = R(0)) =>
        /\ result.value.licenceCost = R(0)
        /\ result.value.msdAbsenceBaselineDays = R(0)
        /\ result.value.absenceSaving = R(0)
        /\ result.value.interventionSaving = R(0)

-----------------------------------------------------------------------------
(* Properties of the pricing resolver, checked under PricingSpec *)

\* the thresholds of the tier table, as integers
Thresholds == {50, 100, 250, 500, 1000, 2500, 5000, 10000}

\* the tier whose threshold is the integer t
TierAt(t) == CHOOSE tier \in { SOFTWARE_PRICING_TIERS[i] : i \in DOMAIN SOFTWARE_PRICING_TIERS } :
                 tier.headcount = R(t)

\* the tier the table assigns to the integer headcount h: the highest
\* threshold <= h, the lowest threshold when there is none
MatchedTier(h) ==
    LET at == { t \in Thresholds : t <= h }
    IN  IF at = {} THEN TierAt(CHOOSE t \in Thresholds : \A u \in Thresholds : t <= u)
        ELSE TierAt(CHOOSE t \in at : \A u \in at : u <= t)

\* C9: the thresholds are 50, 100, 250, 500, 1000, 2500, 5000, 10000 in
\* strictly ascending order; for every non-negative integer headcount the
\* resolver selects the tier with the highest threshold <= headcount, the
\* lowest tier when the headcount is below every threshold, and returns that
\* tier's description as the label.
C9_TierSelection ==
    /\ { SOFTWARE_PRICING_TIERS[i].headcount : i \in DOMAIN SOFTWARE_PRICING_TIERS }
           = { R(t) : t \in Thresholds }
    /\ \A i \in 1 .. Len(SOFTWARE_PRICING_TIERS) - 1 :
           RLt(SOFTWARE_PRICING_TIERS[i].headcount, SOFTWARE_PRICING_TIERS[i + 1].headcount)
    /\ cost.called => cost.value.tier = MatchedTier(inputs.headcount[1]).description

\* C9 witness: a headcount exactly on a threshold gets that threshold's tier
C9_Witness ==
    /\ cost.called
    /\ inputs.headcount = R(2500)
    /\ cost.value.tier = "Enterprise (2500+ employees)"

\* the one discount band of the integer headcount h
DiscountFactor(h) ==
    IF h < 5000 THEN R(1) ELSE IF h < 10000 THEN Frac(95, 100) ELSE Frac(90, 100)

\* C10: the annual price is the matched tier's price with exactly one discount
\* band applied, rounded to a whole unit: none below 5,000, 5% from 5,000 to
\* 9,999, 10% from 10,000; the two bands are never both applied.
C10_OneDiscountBand ==
    cost.called =>
        LET h == inputs.headcount[1]
            price == MatchedTier(h).annualPrice
        IN  /\ cost.value.annualPrice = MathRound(RMul(price, DiscountFactor(h)))
            /\ cost.value.annualPrice[2] = 1
            /\ h >= 5000 =>
                   cost.value.annualPrice #
                       MathRound(RMul(RMul(price, Frac(95, 100)), Frac(90, 100)))

\* C10 witness: headcount 10,000 pays 49,500, which is 55,000 less 10%
C10_Witness ==
    /\ cost.called
    /\ inputs.headcount = R(10000)
    /\ cost.value.annualPrice = R(49500)

\* x rounded to two decimals as the code does it: Math.round(x * 100) / 100
Round2(x) == RDiv(MathRound(RMul(x, R(100))), R(100))

\* C11 as stated: the per-user price is recomputed from the discounted annual
\* price for every headcount h >= 1 (annualPrice / h to two decimals), and a
\* divide-by-zero guard makes it 0 for h = 0.
C11_PerUserAlwaysRecomputed ==
    cost.called =>
        LET h == inputs.headcount[1]
        IN  IF h >= 1
            THEN cost.value.perUser = Round2(RDiv(cost.value.annualPrice, R(h)))
            ELSE cost.value.perUser = R(0)

\* C11: the per-user price is recomputed from the discounted annual price only
\* inside the discount bands: for h >= 5000 it is (matched tier's price times
\* the band's factor) / h rounded to two decimals; for every h below 5000,
\* h = 0 included, it is the matched tier's listed per-user price, so no
\* division by the headcount happens there and h = 0 gives 15.
C11_PerUserRecomputedInDiscountBands ==
    cost.called =>
        LET h == inputs.headcount[1]
            tier == MatchedTier(h)
        IN  IF h >= 5000
            THEN cost.value.perUser =
                     Round2(RDiv(RMul(tier.annualPrice, DiscountFactor(h)), R(h)))
            ELSE cost.value.perUser = tier.perUser

\* C11 witness: headcount 5,000 pays 28,500, which is 5.70 per user, not the
\* tier's listed 6
C11_Witness ==
    /\ cost.called
    /\ inputs.headcount = R(5000)
    /\ cost.value.annualPrice = R(28500)
    /\ cost.value.perUser = Frac(57, 10)

\* C12: the annual price never falls as the headcount grows over 0..100,000:
\* each headcount costs no more than the next one, which by transitivity
\* orders every pair h1 < h2, across the tier starts and both discount bands.
C12_PriceMonotonic ==
    (cost.called /\ inputs.headcount[1] < MaxHeadcount) =>
        RLe(cost.value.annualPrice,
            calculateSoftwareCost(R(inputs.headcount[1] + 1)).annualPrice)

\* C12 witness: the step into the first discount band, 4,999 -> 5,000, where
\* the discounted 28,500 is still above the 17,500 of the tier below
C12_Witness ==
    /\ cost.called
    /\ inputs.headcount = R(4999)
    /\ cost.value.annualPrice = R(17500)
    /\ calculateSoftwareCost(R(5000)).annualPrice = R(28500)

-----------------------------------------------------------------------------
(* Fault containment, checked under Spec *)

\* the fields of a ROICalculationResults
ResultFields == {"isValid", "validationErrors", "calculationSteps"} \cup NumericFields

\* the result every fault must take, whatever its message
IsFaultResult(r) ==
    /\ DOMAIN r = ResultFields
    /\ ~r.isValid
    /\ Len(r.validationErrors) = 1
    /\ \A f \in NumericFields : r[f] = R(0)
    /\ r.calculationSteps = <<>>

\* C13: calculateROI always returns a result record, never an exception; when
\* reading the input faults (the parameter set is null) the result is invalid
\* with exactly one error entry, every numeric field 0 and no audit steps, and
\* without a fault the result is valid. calculateAllScenarios contains the
\* fault three times.
C13_FaultContained ==
    /\ result.called =>
           /\ DOMAIN result.value = ResultFields
           /\ IsNull(inputs) => IsFaultResult(result.value)
           /\ ~IsNull(inputs) => result.value.isValid
    /\ (scenarios.called /\ IsNull(inputs)) =>
           \A s \in Scenarios : IsFaultResult(scenarios.value[s])

\* C13 witness: calculateROI(null, 'stretch') returned the fault result
C13_Witness ==
    /\ result.called
    /\ IsNull(inputs)
    /\ result.scenario = "stretch"
    /\ ~result.value.isValid
    /\ result.value.validationErrors =
           << "Calculation error: Cannot read properties of null (reading 'headcount')" >>

-----------------------------------------------------------------------------
(* Frame and sensitivity analysis, checked under AnalysisSpec *)

\* C14: calculateROI, calculateAllScenarios and performSensitivityAnalysis
\* leave every field of the caller's parameter set as it was before the call,
\* and calculateAllScenarios returns the three calculateROI results of that
\* same parameter set.
C14_CallerInputsUnchanged ==
    [][ /\ inputs' = inputs
        /\ scenarios'.called =>
               scenarios'.value =
                   [s \in Scenarios |-> calculateROI(inputs, s)] ]_vars

\* C14 witness: calculateAllScenarios returned a conservative result computed
\* with the adjusted admin time while the caller's set still holds 1.5 days
C14_Witness ==
    /\ scenarios.called
    /\ inputs.adminTimeWithSoftware = Frac(3, 2)
    /\ inputs.reductionInMsdAbsence = R(15)
    /\ RGt(scenarios.value.conservative.adminCostWithSoftware,
           scenarios.value.expected.adminCostWithSoftware)

\* the seven variations in the order the curves list them
VariationPercents == << -30, -20, -10, 0, 10, 20, 30 >>

\* p with field f shifted by v percent of its value
Perturbed(p, f, v) ==
    [p EXCEPT ![f] = RAdd(p[f], RDiv(RMul(p[f], R(v)), R(100)))]

\* the three outputs a point records, taken from an engine result
PointOf(v, r) ==
    [variation |-> R(v), roi |-> r.roiPercentage,
     paybackMonths |-> r.paybackMonths, netBenefit |-> r.netBenefit]

\* C15: the analysis returns one curve per requested field in request order;
\* each curve has the 7 points of -30..30 percent in that order; the point of
\* field f and variation v records calculateROI(p', 'expected') with p' = p
\* except f = baseline + baseline * v / 100; and a field's curve is the same
\* whatever other fields are analysed with it.
C15_SensitivityCurves ==
    sensitivity.called =>
        LET fields == sensitivity.parameters
            curves == sensitivity.value
        IN  /\ Len(curves) = Len(fields)
            /\ \A i \in 1 .. Len(fields) :
                   /\ curves[i].parameter = getParameterDisplayName(fields[i])
                   /\ curves[i].baseline = inputs[fields[i]]
                   /\ Len(curves[i].variations) = Len(VariationPercents)
                   /\ \A j \in 1 .. Len(VariationPercents) :
                          curves[i].variations[j] =
                              PointOf(VariationPercents[j],
                                      calculateROI(Perturbed(inputs, fields[i],
                                                             VariationPercents[j]),
                                                   "expected"))
                   /\ curves[i] = performSensitivityAnalysis(inputs, << fields[i] >>)[1]

\* C15 witness: the two-field request headcount, dseUserPercentage on 800
\* staff gave two curves, headcount's first, whose outer points differ
C15_Witness ==
    /\ sensitivity.called
    /\ sensitivity.parameters = << "headcount", "dseUserPercentage" >>
    /\ inputs.headcount = R(800)
    /\ inputs.dseUserPercentage = R(50)
    /\ Len(sensitivity.value) = 2
    /\ sensitivity.value[1].parameter = "Company Size"
    /\ sensitivity.value[2].variations[1].netBenefit
           # sensitivity.value[2].variations[7].netBenefit

\* C16: for a single analysed field, the point of variation 0 records the
\* roiPercentage, paybackMonths and netBenefit of calculateROI(p, 'expected').
C16_ZeroVariationIsExpected ==
    (sensitivity.called /\ Len(sensitivity.parameters) = 1) =>
        LET r == calculateROI(inputs, "expected")
        IN  \A k \in DOMAIN sensitivity.value[1].variations :
                LET point == sensitivity.value[1].variations[k]
                IN  point.variation = R(0) =>
                        /\ point.roi = r.roiPercentage
                        /\ point.paybackMonths = r.paybackMonths
                        /\ point.netBenefit = r.netBenefit

\* C16 witness: the analysis of adminSalary alone has a 0 point equal to the
\* expected result and a -30 point that is not
C16_Witness ==
    /\ sensitivity.called
    /\ sensitivity.parameters = << "adminSalary" >>
    /\ inputs.headcount = R(800)
    /\ inputs.adminTimeNow = R(5)
    /\ sensitivity.value[1].variations[4].variation = R(0)
    /\ sensitivity.value[1].variations[4].netBenefit
           = calculateROI(inputs, "expected").netBenefit
    /\ sensitivity.value[1].variations[1].netBenefit
           # calculateROI(inputs, "expected").netBenefit

-----------------------------------------------------------------------------
(* Properties of the validators, checked under ValidationSpec *)

PercentageFields ==
    {"dseUserPercentage", "baselineAbsenceRate", "msdPrevalence",
     "reductionInMsdAbsence", "reductionInClinicalInterventions",
     "absenceDueToMsdPercentage", "msdNeedingInterventionPercentage",
     "adminOnCostPercentage"}

AdminTimeFields == {"adminTimeNow", "adminTimeWithSoftware"}

CurrencyFields ==
    {"adminSalary", "softwarePricePerUser", "costPerAbsenceDay",
     "costPerClinicalIntervention"}

IsInteger(x) == IsFinite(x) /\ x[2] = 1

Within(x, lo, hi) == RLe(R(lo), x) /\ RLe(x, R(hi))

\* the constraint the schema puts on field f, stated on the value x
MeetsConstraint(f, x) ==
    CASE f = "headcount" -> IsInteger(x) /\ Within(x, 1, 100000)
      [] f = "workDaysPerYear" -> IsInteger(x) /\ Within(x, 200, 260)
      [] f \in PercentageFields -> Within(x, 0, 100)
      [] f \in AdminTimeFields -> Within(x, 0, 7)
      [] f \in CurrencyFields -> RGt(x, R(0))

\* the fields of the candidate p that violate their constraint
ViolatingFields(p) ==
    { f \in NumericInputFields : ~MeetsConstraint(f, p[f]) }
        \cup (IF p.currency \in {"EUR", "GBP", "USD"} THEN {} ELSE {"currency"})

\* validateInputs(inputs) has returned
Validated == validation.called /\ validation.of = "inputs"

\* the fields the returned error list names
ErrorFields ==
    { validation.value.errors[k].field : k \in DOMAIN validation.value.errors }

\* the returned error list has the entry `${f}: ${m}`
HasError(f, m) ==
    /\ ~validation.value.success
    /\ \E k \in DOMAIN validation.value.errors :
           validation.value.errors[k] = [field |-> f, message |-> m]

\* C17: validation does not stop at the first error: validateInputs succeeds
\* with no errors exactly when no field violates its constraint, and otherwise
\* its error list names every one of the k violating fields and no other.
C17_AllViolationsReported ==
    Validated =>
        /\ validation.value.success <=> ViolatingFields(inputs) = {}
        /\ validation.value.success => "errors" \notin DOMAIN validation.value
        /\ ~validation.value.success => ErrorFields = ViolatingFields(inputs)

\* C17 witness: the candidate of the test 'should catch multiple validation
\* errors' (headcount -1, dseUserPercentage 150, adminSalary 0) got three
\* errors, one per violating field, in schema order
C17_Witness ==
    /\ Validated
    /\ inputs = [DEFAULT_INPUTS EXCEPT !.headcount = R(-1),
                                       !.dseUserPercentage = R(150),
                                       !.adminSalary = R(0)]
    /\ ~validation.value.success
    /\ [k \in DOMAIN validation.value.errors |-> validation.value.errors[k].field]
           = << "headcount", "dseUserPercentage", "adminSalary" >>

\* C18 as stated: validateInputs reports an error for a numeric field exactly
\* when the value is outside the field's [min, max] of the rule table or, for
\* headcount, is not an integer; so it rejects a field value exactly when
\* validateField does.
C18_ValidatorsAgree ==
    Validated =>
        \A f \in NumericInputFields :
            LET x == inputs[f]
                rules == getFieldConstraints(f)
                outside == ~(RLe(rules.min, x) /\ RLe(x, rules.max))
            IN  /\ (~validation.value.success /\ f \in ErrorFields)
                       <=> (outside \/ (f = "headcount" /\ ~IsInteger(x)))
                /\ (f # "headcount" \/ IsInteger(x)) =>
                       ((~validation.value.success /\ f \in ErrorFields)
                            <=> ~validateField(f, x).valid)

C20_MessagesAsTested ==
    Validated =>
        /\ (IsInteger(inputs.headcount) /\ RLt(inputs.headcount, R(1))) =>
               HasError("headcount", "Must be greater than 0")
        /\ \A f \in CurrencyFields :
               inputs[f] = R(0) => HasError(f, "Must be greater than 0")
        /\ \A f \in PercentageFields :
               RGt(inputs[f], R(100)) => HasError(f, "Cannot exceed 100%")
        /\ \A f \in AdminTimeFields :
               RGt(inputs[f], R(7)) => HasError(f, "Cannot exceed 7 days")

-----------------------------------------------------------------------------
(* The advisory business rules, checked under Spec *)

AdminTimeMessage == "Admin time with software must be less than current admin time"

\* the members of a list of messages
Messages(list) == { list[k] : k \in DOMAIN list }

\* C21: the cross-field rules do not block: a parameter set that passes
\* validateInputs with adminTimeWithSoftware >= adminTimeNow still gets
\* isValid = true and no errors from calculateROI, and validateBusinessLogic
\* returns the admin-time message exactly when
\* adminTimeWithSoftware >= adminTimeNow.
C21_BusinessRulesAdvisory ==
    /\ (result.called /\ ~IsNull(inputs) /\ validateInputs(inputs).success
            /\ RGe(inputs.adminTimeWithSoftware, inputs.adminTimeNow)) =>
           /\ result.value.isValid
           /\ result.value.validationErrors = <<>>
           /\ AdminTimeMessage \in Messages(validateBusinessLogic(inputs))
    /\ (validation.called /\ validation.of = "businessLogic") =>
           (AdminTimeMessage \in Messages(validation.value)
                <=> RGe(inputs.adminTimeWithSoftware, inputs.adminTimeNow))

\* C21 witness: validateBusinessLogic reported the admin-time rule on a set
\* that passes validateInputs and has equal admin times
C21_Witness ==
    /\ validation.called
    /\ validation.of = "businessLogic"
    /\ validateInputs(inputs).success
    /\ inputs.adminTimeWithSoftware = inputs.adminTimeNow
    /\ validation.value = << AdminTimeMessage >>
    /\ calculateROI(inputs, "expected").isValid

-----------------------------------------------------------------------------
(* The test runner's cases, checked under Spec *)

\* |actual - expected| is less than percent % of expected
WithinPercent(actual, expected, percent) ==
    RLt(RMul(MathAbs(RSub(actual, R(expected))), R(100)), R(percent * expected))

\* calculateROI(basicCalculationInputs, 'expected') has returned
BasicCaseComputed ==
    result.called /\ inputs = basicCalculationInputs /\ result.scenario = "expected"

StatedRanges ==
    << [roi |-> <<800, 1200>>, payback |-> <<2, 4>>, savings |-> <<15000, 25000>>],
       [roi |-> <<400, 600>>, payback |-> <<4, 6>>, savings |-> <<45000, 65000>>],
       [roi |-> <<250, 400>>, payback |-> <<6, 8>>, savings |-> <<80000, 120000>>],
       [roi |-> <<600, 900>>, payback |-> <<3, 5>>, savings |-> <<35000, 55000>>],
       [roi |-> <<150, 250>>, payback |-> <<8, 12>>, savings |-> <<120000, 180000>>] >>

Between(x, bounds) == RLe(R(bounds[1]), x) /\ RLe(x, R(bounds[2]))

\* C24 as stated: for each of the five test scenarios the expected result has
\* its roiPercentage, paybackMonths and totalAnnualSavings inside the stated
\* ranges, each range string being read as its two bounds, so validateScenario
\* passes.
C24_TestScenariosInRange ==
    \A i \in DOMAIN TEST_SCENARIOS :
        (testResult.called /\ inputs = TEST_SCENARIOS[i].inputs) =>
            /\ testResult.value.roiRange.min = R(StatedRanges[i].roi[1])
            /\ testResult.value.roiRange.max = R(StatedRanges[i].roi[2])
            /\ testResult.value.savingsRange.min = R(StatedRanges[i].savings[1])
            /\ testResult.value.savingsRange.max = R(StatedRanges[i].savings[2])
            /\ Between(testResult.value.actual.roiPercentage, StatedRanges[i].roi)
            /\ Between(testResult.value.actual.paybackMonths, StatedRanges[i].payback)
            /\ Between(testResult.value.actual.totalAnnualSavings, StatedRanges[i].savings)
            /\ testResult.value.passed

-----------------------------------------------------------------------------
(* The audit trail, checked under Spec *)

\* the result fields the audit steps record, in the order of the steps
StepFields ==
    << "adminCostNow", "adminCostWithSoftware", "adminSaving", "licenceCost",
       "msdAbsenceBaselineDays", "absenceSaving", "interventionSaving",
       "totalAnnualSavings", "netBenefit", "roiPercentage", "paybackMonths",
       "breakevenUsers" >>

\* the values the audit steps record
StepValues(r) == [k \in DOMAIN r.calculationSteps |-> r.calculationSteps[k].value]

\* C23 as stated: for headcount >= 1 the trail has 14 records, the first two
\* recording onCostMultiplier and dseUserCount and the other twelve the
\* quantities from adminCostNow to breakevenUsers.
C23_FourteenAuditSteps ==
    CalledOnStaff =>
        /\ Len(result.value.calculationSteps) = 14
        /\ StepValues(result.value) =
               << RAdd(R(1), Pct(inputs.adminOnCostPercentage)), dseUserCountOf(inputs) >>
                   \o [k \in DOMAIN StepFields |-> result.value[StepFields[k]]]

\* C23: for headcount >= 1 the trail has 12 records, one per quantity from
\* adminCostNow to breakevenUsers in the order of computation, each holding the
\* value returned for that quantity; onCostMultiplier and dseUserCount are
\* computed but get no record.
C23_TwelveAuditSteps ==
    CalledOnStaff =>
        /\ Len(result.value.calculationSteps) = 12
        /\ [k \in DOMAIN result.value.calculationSteps |->
                result.value.calculationSteps[k].step]
               = << "Admin Cost (Current)", "Admin Cost (With Software)",
                    "Admin Time Savings", "Software Licence Cost",
                    "MSD Absence Baseline Days", "Absence Reduction Savings",
                    "Clinical Intervention Savings", "Total Annual Savings",
                    "Net Annual Benefit", "ROI Percentage", "Payback Period",
                    "Breakeven Users" >>
        /\ StepValues(result.value) =
               [k \in DOMAIN StepFields |-> result.value[StepFields[k]]]

\* C23 witness: a result for 800 staff whose ROI step holds a value that is
\* not a whole number
C23_Witness ==
    /\ CalledOnStaff
    /\ inputs.headcount = R(800)
    /\ Len(result.value.calculationSteps) = 12
    /\ result.value.calculationSteps[10].step = "ROI Percentage"
    /\ result.value.calculationSteps[10].value = result.value.roiPercentage
    /\ result.value.roiPercentage[2] # 1

-----------------------------------------------------------------------------
(* Breakeven users, checked under Spec *)

\* C25: for a valid parameter set with headcount >= 1 and every scenario,
\* breakevenUsers is a finite non-negative integer: with positive savings and
\* a positive DSE user count it is ceil(licenceCost / (savings per DSE user)),
\* the least count X with X * (savings per DSE user) >= licenceCost; it is 0
\* when the savings are not positive, and 0 when the DSE user count is 0.
C25_BreakevenUsers ==
    (CalledOnStaff /\ validateInputs(inputs).success) =>
        LET r == result.value
            b == r.breakevenUsers
            users == RMul(inputs.headcount, Pct(inputs.dseUserPercentage))
            perUser == RDiv(r.totalAnnualSavings, users)
        IN  /\ r.isValid
            /\ IsFinite(b) /\ b[2] = 1 /\ b[1] >= 0
            /\ (RGt(r.totalAnnualSavings, R(0)) /\ RGt(users, R(0))) =>
                   /\ b = MathCeil(RDiv(r.licenceCost, perUser))
                   /\ RGe(RMul(b, perUser), r.licenceCost)
                   /\ b[1] > 0 => RLt(RMul(R(b[1] - 1), perUser), r.licenceCost)
            /\ RLe(r.totalAnnualSavings, R(0)) => b = R(0)
            /\ users = R(0) => b = R(0)

\* C25 witness: a valid set with no DSE users whose admin saving alone is
\* positive, so the savings per DSE user are infinite and breakevenUsers is 0
C25_Witness ==
    /\ CalledOnStaff
    /\ validateInputs(inputs).success
    /\ inputs.dseUserPercentage = R(0)
    /\ RGt(result.value.totalAnnualSavings, R(0))
    /\ result.value.breakevenUsers = R(0)

-----------------------------------------------------------------------------
(* Properties of the App and its form, checked under AppSpec *)

\* a and b are the same JavaScript value (a number never equals a string)
SameValue(a, b) == IsNumber(a) = IsNumber(b) /\ a = b

\* the step is the one a choice of code in the currency Select takes
CurrencySelected(code) ==
    /\ ~effectPending
    /\ effectPending'
    /\ \A f \in DOMAIN inputs :
           SameValue(inputs'[f],
                     handleInputChange(inputs, "currency", JSString(characters(code)))[f])
    /\ fieldErrors' = fieldErrors
    /\ activeScenario' = activeScenario

\* C26: a choice of EUR, GBP or USD in the currency Select stores that code
\* in inputs.currency and changes no other field, so inputs that were valid
\* stay valid (every handler sets effectPending, so the steps that change it
\* include every choice).
C26_CurrencySelectionStoresCode ==
    [][\A code \in CurrencyEnum :
           CurrencySelected(code) =>
               /\ SameValue(inputs'.currency, code)
               /\ \A f \in NumericInputFields : inputs'[f] = inputs[f]
               /\ validateInputs(inputs).success => validateInputs(inputs').success
      ]_effectPending

\* C27: once the effect has run for the current inputs, scenarios is held
\* exactly when validateInputs(inputs) succeeds and validationErrors is empty
\* exactly then; on success scenarios and sensitivityData are those of the
\* current inputs, on failure sensitivityData is empty.
C27_EffectResultsAreCurrent ==
    ~effectPending =>
        IF validateInputs(inputs).success
        THEN /\ scenarios.called
             /\ validationErrors = <<>>
             /\ scenarios.value = calculateAllScenarios(inputs)
             /\ sensitivityData = performSensitivityAnalysis(inputs, defaultParameters)
        ELSE /\ ~scenarios.called
             /\ validationErrors # <<>>
             /\ sensitivityData = <<>>

\* C27 witness: the effect has run for inputs that fail validation after an
\* earlier run had computed results for valid inputs
C27_Witness ==
    /\ ~effectPending
    /\ sensitivity.called
    /\ ~validateInputs(inputs).success
    /\ ~scenarios.called
    /\ validationErrors # <<>>
    /\ sensitivityData = <<>>

\* C28: in every state of the App, inputs.softwarePricePerUser is the
\* per-user price of the current headcount.
C28_PriceFollowsHeadcount ==
    inputs.softwarePricePerUser = calculateSoftwareCost(inputs.headcount).perUser

-----------------------------------------------------------------------------
(* The scenario adjustments and the payback period, checked under Spec *)

\* C29: for a parameter set the validator accepts and every scenario, the
\* adjusted values the computation uses stay in the ranges declared for
\* their fields: adminTimeWithSoftware in [0, 7], reductionInMsdAbsence and
\* reductionInClinicalInterventions in [0, 100]; so absenceSaving is at most
\* msdAbsenceBaselineDays * costPerAbsenceDay.
C29_AdjustedValuesInRange ==
    (CalledOnStaff /\ validateInputs(inputs).success) =>
        LET adjusted == applyScenario(inputs, result.scenario)
        IN  /\ Within(adjusted.adminTimeWithSoftware, 0, 7)
            /\ Within(adjusted.reductionInMsdAbsence, 0, 100)
            /\ Within(adjusted.reductionInClinicalInterventions, 0, 100)
            /\ RLe(result.value.absenceSaving,
                   RMul(result.value.msdAbsenceBaselineDays, inputs.costPerAbsenceDay))

\* C30: for headcount >= 1 and every scenario, the payback period is under
\* 12 months exactly when the net benefit (and so the ROI percentage) is
\* positive, and is 12 months exactly when the net benefit is 0.
C30_PaybackAgreesWithNetBenefit ==
    CalledOnStaff =>
        LET r == result.value
        IN  /\ r.isValid
            /\ RLt(r.paybackMonths, R(12)) <=> RGt(r.netBenefit, R(0))
            /\ RGt(r.netBenefit, R(0)) <=> RGt(r.roiPercentage, R(0))
            /\ r.paybackMonths = R(12) <=> r.netBenefit = R(0)

\* C30 witness: the savings equal the licence cost, so the net benefit is 0
\* and the payback period is 12 months
C30_Witness ==
    /\ CalledOnStaff
    /\ inputs = BreakEvenInputs
    /\ result.value.netBenefit = R(0)
    /\ result.value.paybackMonths = R(12)

====
